---- MODULE Spec2Model ----
(***************************************************************************)
(* Verification model of the descriptor engine of Enhanced Coordination    *)
(* Analysis v6.2.3 (modules/q6_module.py, modules/coordination_module.py,  *)
(* modules/global_q6_module.py, modules/math_utils.py, modules/config.py). *)
(*                                                                         *)
(* The engine is a library of pure functions over Python floats.  The      *)
(* model keeps the floats: a float is a record [m, e] standing for         *)
(* m * 10^e with a signed mantissa of nine significant decimal digits      *)
(* (10^8 <= |m| < 10^9, or m = 0 and e = 0), results truncated toward      *)
(* zero.  Every numeric definition below is the source expression          *)
(* rewritten with these operations, in the order the source evaluates it.  *)
(* Atom coordinates are lattice points in tenths of an Angstrom, so that   *)
(* coordinate differences and squared distances are exact integers.        *)
(*                                                                         *)
(* The state is the last library call: its name, its arguments and what    *)
(* it returned.  Each action is one entry point applied to inputs drawn    *)
(* from small sets.                                                        *)
(***************************************************************************)
EXTENDS Integers, Sequences, FiniteSets, TLC

VARIABLES op, arg, ret

vars == <<op, arg, ret>>

(***************************************************************************)
(* Float arithmetic                                                        *)
(***************************************************************************)
\* The single element of a one-element set.  Python computes an operand
\* once, before the operation that uses it: Only({e : x \in {a}}) is e with
\* x standing for the value of a.
Only(S) == CHOOSE r \in S : TRUE

Abs(n) == IF n < 0 THEN -n ELSE n

Sgn(n) == IF n < 0 THEN -1 ELSE IF n > 0 THEN 1 ELSE 0

MantLo == 10^8

FZero == [m |-> 0, e |-> 0]

\* Number of decimal digits of a > 0 (a < 2^31).
RECURSIVE NDigits(_)
NDigits(a) == IF a < 10 THEN 1 ELSE 1 + NDigits(a \div 10)

\* The float of sign s and magnitude a * 10^e, 0 <= a < 2^31, normalised.
FNorm(s, a, e) ==
    IF a = 0 \/ s = 0 THEN FZero
    ELSE LET n == NDigits(a)
         IN  IF n > 9 THEN [m |-> s * (a \div 10), e |-> e + 1]
             ELSE [m |-> s * a * 10^(9 - n), e |-> e - (9 - n)]

\* The float of the integer k * 10^e (an exact decimal literal).
F(k, e) == FNorm(Sgn(k), Abs(k), e)

FOne == F(1, 0)

FNeg(x0) == Only({[m |-> -x.m, e |-> x.e] : x \in {x0}})

FAbs(x0) == Only({[m |-> Abs(x.m), e |-> x.e] : x \in {x0}})

\* x + y.  The operand of smaller exponent is shifted right (truncated),
\* except in a one-digit cancellation, which is exact as in IEEE arithmetic.
FAdd(x0, y0) ==
    Only({IF x.m = 0 THEN y
          ELSE IF y.m = 0 THEN x
          ELSE LET hi == IF x.e >= y.e THEN x ELSE y
                   lo == IF x.e >= y.e THEN y ELSE x
                   d  == hi.e - lo.e
               IN  IF d = 0
                   THEN FNorm(Sgn(hi.m + lo.m), Abs(hi.m + lo.m), hi.e)
                   ELSE IF d = 1 /\ Sgn(hi.m) # Sgn(lo.m) /\ Abs(hi.m) <= 214748364
                   THEN FNorm(Sgn(hi.m), Abs(hi.m * 10 + lo.m), lo.e)
                   ELSE LET sh == IF d > 9 THEN 0
                                  ELSE Sgn(lo.m) * (Abs(lo.m) \div 10^d)
                        IN  FNorm(Sgn(hi.m), Abs(hi.m + sh), hi.e)
          : x \in {x0}, y \in {y0}})

FSub(x, y) == FAdd(x, FNeg(y))

FLt(x, y) == FSub(x, y).m < 0

FGt(x, y) == FSub(x, y).m > 0

FLe(x, y) == FSub(x, y).m <= 0

FGe(x, y) == FSub(x, y).m >= 0

\* x * y: the leading nine digits of the 18-digit product of the
\* mantissas, computed on three-digit limbs.
FMul(x0, y0) ==
    Only({IF x.m = 0 \/ y.m = 0 THEN FZero
          ELSE LET a  == Abs(x.m)
                   b  == Abs(y.m)
                   a2 == a \div 1000000
                   a1 == (a \div 1000) % 1000
                   a0 == a % 1000
                   b2 == b \div 1000000
                   b1 == (b \div 1000) % 1000
                   b0 == b % 1000
                   c0 == a0 * b0
                   c1 == a0 * b1 + a1 * b0
                   c2 == a0 * b2 + a1 * b1 + a2 * b0
                   c3 == a1 * b2 + a2 * b1
                   c4 == a2 * b2
                   s  == Sgn(x.m) * Sgn(y.m)
               IN  Only({IF top >= MantLo
                         THEN [m |-> s * top, e |-> x.e + y.e + 9]
                         ELSE [m |-> s * (top * 10 + ((low % 1000) \div 100)),
                               e |-> x.e + y.e + 8]
                         : low \in {c2 + ((c1 + (c0 \div 1000)) \div 1000)},
                           top \in {c4 * 1000 + c3
                                    + ((c2 + ((c1 + (c0 \div 1000)) \div 1000)) \div 1000)}})
          : x \in {x0}, y \in {y0}})

\* One step of a long division: the quotient and remainder of base * r by
\* b, for 0 <= r < b, 10^8 <= b < 10^9 and base 10, 100 or 1000.  base * r
\* may not fit a machine integer: the quotient is estimated from
\* b \div base and corrected by one.
DivDigit(r, b, base) ==
    Only({IF rem < 0 THEN <<d - 1, rem + b>> ELSE <<d, rem>>
          : d \in {r \div (b \div base)},
            rem \in {(r - (r \div (b \div base)) * (b \div base)) * base
                     - (r \div (b \div base)) * (b % base)}})

\* n more digits of the quotient, three at a time: mantissa so far q,
\* remainder r.
RECURSIVE DivDigits(_, _, _, _)
DivDigits(q0, r0, b, n) ==
    IF n = 0 THEN q0
    ELSE Only({DivDigits(q * base + d[1], d[2], b, n - c)
               : q \in {q0}, c \in {IF n < 3 THEN n ELSE 3},
                 base \in {10 ^ (IF n < 3 THEN n ELSE 3)},
                 d \in {DivDigit(r0, b, 10 ^ (IF n < 3 THEN n ELSE 3))}})

\* x / y for y # 0, by long division of the mantissas.
FDiv(x0, y0) ==
    Only({IF x.m = 0 THEN FZero
          ELSE LET a  == Abs(x.m)
                   b  == Abs(y.m)
                   q0 == a \div b
                   r0 == a % b
                   s  == Sgn(x.m) * Sgn(y.m)
               IN  IF q0 >= 1
                   THEN [m |-> s * DivDigits(q0, r0, b, 8), e |-> x.e - y.e - 8]
                   ELSE [m |-> s * DivDigits(0, r0, b, 9), e |-> x.e - y.e - 9]
          : x \in {x0}, y \in {y0}})

\* x * (x * (... (x * acc))) with n factors x.
RECURSIVE FPowFrom(_, _, _)
FPowFrom(x0, n0, acc0) ==
    Only({IF n = 0 THEN acc ELSE FPowFrom(x, n - 1, FMul(x, acc))
          : x \in {x0}, n \in {n0}, acc \in {acc0}})

\* x ** n for an integer n >= 0.
FPow(x0, n) == FPowFrom(x0, n, FOne)

(***************************************************************************)
(* q6_module.classify_structure_advanced                                   *)
(***************************************************************************)
\* The decision tree with the first comparison inclusive (q6 >= 0.60).
classify_structure_inclusive(q4, q6) ==
    IF FGe(q6, F(60, -2))
    THEN IF FGt(q4, F(15, -2)) THEN "FCC-like" ELSE "ICO-like"
    ELSE IF FGt(q6, F(50, -2))
    THEN IF FGt(q4, F(15, -2)) THEN "FCC-like"
         ELSE IF FGt(q4, F(8, -2)) THEN "HCP-like"
         ELSE "BCC-like"
    ELSE IF FGt(q6, F(35, -2)) THEN "Partially-Ordered"
    ELSE IF FGt(q6, F(25, -2)) THEN "Liquid-like"
    ELSE "Disordered"

classify_structure_advanced(q4, q6) ==
    IF FGt(q6, F(60, -2))
    THEN IF FGt(q4, F(15, -2)) THEN "FCC-like" ELSE "ICO-like"
    ELSE IF FGt(q6, F(50, -2))
    THEN IF FGt(q4, F(15, -2)) THEN "FCC-like"
         ELSE IF FGt(q4, F(8, -2)) THEN "HCP-like"
         ELSE "BCC-like"
    ELSE IF FGt(q6, F(35, -2)) THEN "Partially-Ordered"
    ELSE IF FGt(q6, F(25, -2)) THEN "Liquid-like"
    ELSE "Disordered"

(***************************************************************************)
(* Library math: math.sqrt / numpy.sqrt and numpy.exp on floats            *)
(***************************************************************************)
\* Integer square root of n >= 0 by Newton's iteration from the guess g.
RECURSIVE ISqrtFrom(_, _)
ISqrtFrom(n, g) ==
    IF g * g <= n /\ (g + 1) * (g + 1) > n THEN g
    ELSE ISqrtFrom(n, (g + n \div g) \div 2)

ISqrt(n) == IF n = 0 THEN 0 ELSE ISqrtFrom(n, 31622)

\* k Newton steps y <- (y + x / y) / 2.
RECURSIVE SqrtNewton(_, _, _)
SqrtNewton(x, y0, k) ==
    IF k = 0 THEN y0
    ELSE Only({SqrtNewton(x, FMul(FAdd(y, FDiv(x, y)), F(5, -1)), k - 1) : y \in {y0}})

\* sqrt(x) for x >= 0: a five-digit guess from the mantissa, then Newton.
FSqrt(x0) ==
    Only({IF x.m <= 0 THEN FZero
          ELSE LET even == (x.e % 2 = 0)
                   mm   == IF even THEN x.m ELSE x.m \div 10
                   ee   == IF even THEN x.e ELSE x.e + 1
                   y0   == F(ISqrt(mm), ee \div 2)
               IN  SqrtNewton(x, y0, 3)
          : x \in {x0}})

\* 1 + y/k * (1 + y/(k+1) * (...)): the Taylor series of exp(y), terms k..n,
\* from the innermost factor outwards; inner is the value of the terms
\* after the n-th.
RECURSIVE ExpHorner(_, _, _, _)
ExpHorner(y0, k, n0, inner0) ==
    Only({IF n < k THEN inner
          ELSE ExpHorner(y, k, n - 1, FAdd(FOne, FMul(FDiv(y, F(n, 0)), inner)))
          : y \in {y0}, n \in {n0}, inner \in {inner0}})

ExpSeries(y, k, n) == ExpHorner(y, k, n, FOne)

\* The argument halved until it is below 1/2, and the number of halvings.
RECURSIVE ExpHalved(_, _)
ExpHalved(y0, k) ==
    Only({IF FLt(y, F(5, -1)) THEN <<y, k>> ELSE ExpHalved(FMul(y, F(5, -1)), k + 1)
          : y \in {y0}})

\* h squared k times.
RECURSIVE ExpSquared(_, _)
ExpSquared(h0, k) ==
    IF k = 0 THEN h0 ELSE Only({FMul(h, h) : h \in {ExpSquared(h0, k - 1)}})

\* exp(y) for y >= 0: halve the argument below 1/2, sum the series, square back.
ExpPos(y0) ==
    Only({Only({ExpSquared(h, halved[2]) : h \in {ExpSeries(halved[1], 1, 12)}})
          : halved \in {ExpHalved(y0, 0)}})

FExp(t0) ==
    Only({IF t.m >= 0 THEN ExpPos(t) ELSE FDiv(FOne, ExpPos(FNeg(t))) : t \in {t0}})

\* Left-to-right sum of a sequence of floats (sum, numpy.sum, numpy.nansum).
\* The operands are values before the sum starts: s \o <<>> is s with every
\* element computed.
RECURSIVE FSumTo(_, _)
FSumTo(s, n) == IF n = 0 THEN FZero ELSE FAdd(FSumTo(s, n - 1), s[n])

FSum(s0) == Only({FSumTo(s, Len(s)) : s \in {s0 \o <<>>}})

\* numpy.mean of a non-empty sequence of floats.
FMean(s0) == Only({FDiv(FSum(s), F(Len(s), 0)) : s \in {s0}})

(***************************************************************************)
(* Positions: lattice points in tenths of an Angstrom                      *)
(***************************************************************************)
vector_sub(a, b) == <<a[1] - b[1], a[2] - b[2], a[3] - b[3]>>

\* Euclidean norm in Angstrom of a lattice vector (math_utils.vector_norm,
\* numpy.linalg.norm): the squared length is an exact integer of 0.01 A^2.
vector_norm(vec) == FSqrt(F(vec[1] * vec[1] + vec[2] * vec[2] + vec[3] * vec[3], -2))

\* numpy.linalg.norm(positions - central_pos, axis=1)
Distances(positions, central_pos) ==
    [i \in 1..Len(positions) |-> vector_norm(vector_sub(positions[i], central_pos))]

(***************************************************************************)
(* config.COORDINATION                                                     *)
(***************************************************************************)
COORDINATION ==
    [rcut_pt_pt |-> F(30, -1),
     rcut_pt_sn |-> F(32, -1),
     rcut_sn_sn |-> F(34, -1),
     plumed |->
        [pt_pt |-> [R0 |-> F(29, -1), NN |-> 6, MM |-> 12, D0 |-> F(1, -1), Dmax |-> F(100, -1)],
         pt_sn |-> [R0 |-> F(31, -1), NN |-> 6, MM |-> 12, D0 |-> F(1, -1), Dmax |-> F(100, -1)],
         sn_sn |-> [R0 |-> F(33, -1), NN |-> 6, MM |-> 12, D0 |-> F(1, -1), Dmax |-> F(100, -1)]]]

(***************************************************************************)
(* coordination_module.plumed_switch, for one distance of the array        *)
(***************************************************************************)
\* The reduced distance without the offset D0.
SwitchXNoOffset(r, p) == FDiv(r, p.R0)

\* x = (distances - D0) / R0
SwitchX(r, p) == FDiv(FSub(r, p.D0), p.R0)

\* num = 1 - x**NN
SwitchNum(r, p) == FSub(FOne, FPow(SwitchX(r, p), p.NN))

\* den = 1 - x**MM
SwitchRawDen(r, p) == FSub(FOne, FPow(SwitchX(r, p), p.MM))

\* The denominator replaced whenever its magnitude is below 1e-8.
SwitchDenBelow(r, p) ==
    LET den == FSub(FOne, FPow(FDiv(FSub(r, p.D0), p.R0), p.MM))
    IN  IF FLt(FAbs(den), F(1, -8)) THEN F(1, -8) ELSE den

\* den[den == 0] = 1e-8
SwitchDen(r, p) ==
    Only({IF den = FZero THEN F(1, -8) ELSE den : den \in {SwitchRawDen(r, p)}})

\* The clamp beyond Dmax alone, negative values kept.
SwitchClampDmaxOnly(sw, r, p) == IF FGt(r, p.Dmax) THEN FZero ELSE sw

\* sw[distances > Dmax] = 0.0 ; sw[sw < 0] = 0.0
SwitchClamp(sw, r, p) ==
    Only({IF FLt(s1, FZero) THEN FZero ELSE s1
          : s1 \in {IF FGt(r, p.Dmax) THEN FZero ELSE sw}})

plumed_switch(r, p) == SwitchClamp(FDiv(SwitchNum(r, p), SwitchDen(r, p)), r, p)

(***************************************************************************)
(* coordination_module.calc_cn_smooth                                      *)
(***************************************************************************)
calc_cn_smooth(dists, bond_type) ==
    LET params == COORDINATION.plumed[bond_type]
    IN  FSum([i \in 1..Len(dists) |-> plumed_switch(dists[i], params)])

(***************************************************************************)
(* coordination_module.calc_bond_specific_cn_smooth                        *)
(***************************************************************************)
\* The same-role block without the self-distance filter.
SameRoleBlockUnfiltered(central_pos, positions, bond_type, rcut) ==
    IF Len(positions) > 0
    THEN LET cutoff == FMul(rcut, F(15, -1))
             Within(d) == FLt(d, cutoff)
         IN  Only({[cn  |-> calc_cn_smooth(dists, bond_type),
                    avg |-> Only({IF Len(valid) > 0 THEN FMean(valid) ELSE FZero
                                  : valid \in {SelectSeq(dists, Within)}})]
                   : dists \in {Distances(positions, central_pos)}})
    ELSE [cn |-> FZero, avg |-> FZero]

\* The same-role block of a branch (lines 75-84 for Pt, 112-121 for Sn):
\* self-distance filter, smooth sum, mean of the distances below 1.5 * rcut.
SameRoleBlock(central_pos, positions, bond_type, rcut) ==
    IF Len(positions) > 0
    THEN LET NotSelf(d) == FGt(d, F(1, -1))
             cutoff == FMul(rcut, F(15, -1))
             Within(d) == FLt(d, cutoff)
         IN  Only({[cn  |-> calc_cn_smooth(dists, bond_type),
                    avg |-> Only({IF Len(valid) > 0 THEN FMean(valid) ELSE FZero
                                  : valid \in {SelectSeq(dists, Within)}})]
                   : dists \in {SelectSeq(Distances(positions, central_pos), NotSelf)}})
    ELSE [cn |-> FZero, avg |-> FZero]

\* The cross-role block with the mean taken below rcut itself.
CrossRoleBlockAtCutoff(central_pos, positions, bond_type, rcut) ==
    IF Len(positions) > 0
    THEN LET Within(d) == FLt(d, rcut)
         IN  Only({[cn  |-> calc_cn_smooth(dists, bond_type),
                    avg |-> Only({IF Len(valid) > 0 THEN FMean(valid) ELSE FZero
                                  : valid \in {SelectSeq(dists, Within)}})]
                   : dists \in {Distances(positions, central_pos)}})
    ELSE [cn |-> FZero, avg |-> FZero]

\* The cross-role block without the guard on an empty list: the mean of no
\* distance is not 0.0.
CrossRoleBlockUnguarded(central_pos, positions, bond_type, rcut) ==
    LET cutoff == FMul(rcut, F(15, -1))
        Within(d) == FLt(d, cutoff)
    IN  Only({[cn  |-> calc_cn_smooth(dists, bond_type),
               avg |-> Only({IF Len(valid) > 0 THEN FMean(valid) ELSE FNeg(FOne)
                             : valid \in {SelectSeq(dists, Within)}})]
              : dists \in {Distances(positions, central_pos)}})

\* The cross-role block of a branch (lines 87-95 for Pt, 101-109 for Sn):
\* no self-distance filter.
CrossRoleBlock(central_pos, positions, bond_type, rcut) ==
    IF Len(positions) > 0
    THEN LET cutoff == FMul(rcut, F(15, -1))
             Within(d) == FLt(d, cutoff)
         IN  Only({[cn  |-> calc_cn_smooth(dists, bond_type),
                    avg |-> Only({IF Len(valid) > 0 THEN FMean(valid) ELSE FZero
                                  : valid \in {SelectSeq(dists, Within)}})]
                   : dists \in {Distances(positions, central_pos)}})
    ELSE [cn |-> FZero, avg |-> FZero]

\* The total that forgets the cross-role sum.
CnTotalCenterOnly(center_center, center_other) == center_center

\* cn_total of a branch (lines 97 and 123).
CnTotal(center_center, center_other) == FAdd(center_center, center_other)

calc_bond_specific_cn_smooth(central_pos, central_element, pt_positions, sn_positions) ==
    IF central_element = "Pt"
    THEN Only({[cn_center_center |-> cc.cn,
                cn_center_other |-> co.cn,
                cn_total |-> CnTotal(cc.cn, co.cn),
                avg_dist_center_center |-> cc.avg,
                avg_dist_center_other |-> co.avg,
                central_element |-> central_element]
               : cc \in {SameRoleBlock(central_pos, pt_positions, "pt_pt",
                                       COORDINATION.rcut_pt_pt)},
                 co \in {CrossRoleBlock(central_pos, sn_positions, "pt_sn",
                                        COORDINATION.rcut_pt_sn)}})
    ELSE IF central_element = "Sn"
    THEN Only({[cn_center_center |-> cc.cn,
                cn_center_other |-> co.cn,
                cn_total |-> CnTotal(co.cn, cc.cn),
                avg_dist_center_center |-> cc.avg,
                avg_dist_center_other |-> co.avg,
                central_element |-> central_element]
               : co \in {CrossRoleBlock(central_pos, pt_positions, "pt_sn",
                                        COORDINATION.rcut_pt_sn)},
                 cc \in {SameRoleBlock(central_pos, sn_positions, "sn_sn",
                                       COORDINATION.rcut_sn_sn)}})
    ELSE [cn_center_center |-> FZero,
          cn_center_other |-> FZero,
          cn_total |-> FZero,
          avg_dist_center_center |-> FZero,
          avg_dist_center_other |-> FZero,
          central_element |-> central_element]

(***************************************************************************)
(* config.GCN                                                              *)
(***************************************************************************)
GCN ==
    [standard |-> [r0 |-> F(3, -1), cutoff |-> F(30, -1)],
     weighted |-> [r0 |-> F(3, -1), pt_weight |-> F(10, -1), sn_weight |-> F(20, -1),
                   cutoff |-> F(30, -1)],
     sn_weighted |-> [r_min |-> F(20, -1), r_max |-> F(28, -1),
                      pt_weight |-> F(8, -1), sn_weight |-> F(25, -1)],
     shell |-> [shells |->
        << [r_min |-> F(20, -1), r_max |-> F(25, -1), pt_weight |-> F(10, -1), sn_weight |-> F(30, -1)],
           [r_min |-> F(25, -1), r_max |-> F(30, -1), pt_weight |-> F(8, -1), sn_weight |-> F(20, -1)],
           [r_min |-> F(30, -1), r_max |-> F(35, -1), pt_weight |-> F(2, -1), sn_weight |-> F(6, -1)] >>]]

(***************************************************************************)
(* coordination_module.calc_gcn_descriptors                                *)
(***************************************************************************)
\* Lines 143-145: the distances to both roles; only the Pt distances are
\* filtered by > 0.1.
GcnPtDists(central_pos, pt_positions) ==
    LET NotSelf(d) == FGt(d, F(1, -1))
    IN  SelectSeq(Distances(pt_positions, central_pos), NotSelf)

GcnSnDists(central_pos, sn_positions) == Distances(sn_positions, central_pos)

\* The weight set to 0 from the cutoff on, the cutoff itself included.
ExpWeightBelowCutoff(w, d0, r0, cutoff) ==
    Only({IF FGe(d, cutoff) THEN FZero ELSE FMul(w, FExp(FDiv(FNeg(d), r0)))
          : d \in {d0}})

\* w * exp(-d / r0), set to 0 where d > cutoff (lines 150-151, 156-159).
ExpWeight(w, d0, r0, cutoff) ==
    Only({IF FGt(d, cutoff) THEN FZero ELSE FMul(w, FExp(FDiv(FNeg(d), r0)))
          : d \in {d0}})

\* The count over the window without its two bounds.
WindowCountOpen(dists, r_min, r_max) ==
    LET In(d) == FGt(d, r_min) /\ FLt(d, r_max)
    IN  Len(SelectSeq(dists, In))

\* np.sum((dists >= r_min) & (dists <= r_max))
WindowCount(dists, r_min, r_max) ==
    LET In(d) == FGe(d, r_min) /\ FLe(d, r_max)
    IN  Len(SelectSeq(dists, In))

\* The loop over the shells with every neighbour counted in the first
\* window it falls into only.
RECURSIVE ShellSumFirstWindow(_, _, _, _)
ShellSumFirstWindow(shells, n, pt_dists, sn_dists) ==
    IF n = 0 THEN FZero
    ELSE LET shell == shells[n]
             Fresh(d) == \A k \in 1..(n - 1) :
                            ~(FGe(d, shells[k].r_min) /\ FLe(d, shells[k].r_max))
             pt_count == WindowCount(SelectSeq(pt_dists, Fresh), shell.r_min, shell.r_max)
             sn_count == WindowCount(SelectSeq(sn_dists, Fresh), shell.r_min, shell.r_max)
         IN  FAdd(ShellSumFirstWindow(shells, n - 1, pt_dists, sn_dists),
                  FAdd(FMul(shell.pt_weight, F(pt_count, 0)),
                       FMul(shell.sn_weight, F(sn_count, 0))))

\* Lines 173-177: the loop over the shells, accumulating in order.
RECURSIVE ShellSum(_, _, _, _)
ShellSum(shells, n, pt_dists, sn_dists) ==
    IF n = 0 THEN FZero
    ELSE LET shell == shells[n]
             pt_count == WindowCount(pt_dists, shell.r_min, shell.r_max)
             sn_count == WindowCount(sn_dists, shell.r_min, shell.r_max)
         IN  FAdd(ShellSum(shells, n - 1, pt_dists, sn_dists),
                  FAdd(FMul(shell.pt_weight, F(pt_count, 0)),
                       FMul(shell.sn_weight, F(sn_count, 0))))

\* The body of calc_gcn_descriptors under a configuration table gcn (the
\* module global GCN read at every call); GCN['enable'] is the argument
\* enable.
calc_gcn_descriptors_under(gcn, enable, central_pos, pt_positions, sn_positions) ==
    IF ~enable
    THEN [gcn_loc |-> FZero, w_gcn_loc |-> FZero, sn_w_gcn_loc |-> FZero,
          shell_gcn_loc |-> FZero]
    ELSE LET std == gcn.standard
             wtd == gcn.weighted
             snw == gcn.sn_weighted
         IN  Only({
             LET all_dists == pt_dists \o sn_dists
             IN  [gcn_loc |->
                     FSum([i \in 1..Len(all_dists) |->
                              ExpWeight(FOne, all_dists[i], std.r0, std.cutoff)]),
                  w_gcn_loc |->
                     FAdd(FSum([i \in 1..Len(pt_dists) |->
                                  ExpWeight(wtd.pt_weight, pt_dists[i], wtd.r0, wtd.cutoff)]),
                          FSum([i \in 1..Len(sn_dists) |->
                                  ExpWeight(wtd.sn_weight, sn_dists[i], wtd.r0, wtd.cutoff)])),
                  sn_w_gcn_loc |->
                     FAdd(FMul(snw.pt_weight,
                               F(WindowCount(pt_dists, snw.r_min, snw.r_max), 0)),
                          FMul(snw.sn_weight,
                               F(WindowCount(sn_dists, snw.r_min, snw.r_max), 0))),
                  shell_gcn_loc |->
                     ShellSum(gcn.shell.shells, Len(gcn.shell.shells), pt_dists, sn_dists)]
             : pt_dists \in {GcnPtDists(central_pos, pt_positions)},
               sn_dists \in {GcnSnDists(central_pos, sn_positions)}})

\* calc_gcn_descriptors under the shipped configuration.
calc_gcn_descriptors(enable, central_pos, pt_positions, sn_positions) ==
    calc_gcn_descriptors_under(GCN, enable, central_pos, pt_positions, sn_positions)

(***************************************************************************)
(* math_utils: complex numbers, clip, double_factorial, spherical_harmonic *)
(***************************************************************************)
FPi == F(314159265, -8)

CZero == [re |-> FZero, im |-> FZero]

CAdd(a0, b0) ==
    Only({[re |-> FAdd(a.re, b.re), im |-> FAdd(a.im, b.im)] : a \in {a0}, b \in {b0}})

CMul(a0, b0) ==
    Only({[re |-> FSub(FMul(a.re, b.re), FMul(a.im, b.im)),
           im |-> FAdd(FMul(a.re, b.im), FMul(a.im, b.re))]
          : a \in {a0}, b \in {b0}})

\* abs() of a complex number.
CAbs(a0) == Only({FSqrt(FAdd(FMul(a.re, a.re), FMul(a.im, a.im))) : a \in {a0}})

clip(value0, min_value, max_value) ==
    Only({IF FLt(value, min_value) THEN min_value
          ELSE IF FGt(value, max_value) THEN max_value
          ELSE value
          : value \in {value0}})

RECURSIVE factorial(_)
factorial(n) == IF n <= 1 THEN 1 ELSE n * factorial(n - 1)

RECURSIVE double_factorial(_)
double_factorial(n) == IF n <= 0 THEN 1 ELSE n * double_factorial(n - 2)

\* (-1) ** n
MinusOnePow(n) == IF n % 2 = 0 THEN 1 ELSE -1

\* An angle theta in [0, pi] is kept as cos(theta), an angle phi as the pair
\* (cos(phi), sin(phi)): acos, atan2, cos and cmath.exp only convert between
\* an angle and these.
\* cmath.exp(1j * m * phi) = (cos(phi) + i sin(phi)) ** m.
RECURSIVE CisPow(_, _)
CisPow(phi, n) ==
    IF n = 0 THEN [re |-> FOne, im |-> FZero]
    ELSE CMul([re |-> phi.c, im |-> phi.s], CisPow(phi, n - 1))

CExpI(m, phi) ==
    IF m >= 0 THEN CisPow(phi, m)
    ELSE Only({[re |-> z.re, im |-> FNeg(z.im)] : z \in {CisPow(phi, -m)}})

\* The loop of lines 79-81: p_lm for ell = from..l by the three-term recurrence.
RECURSIVE LegendreLoop(_, _, _, _, _, _)
LegendreLoop(ell, l, abs_m, x, p_lm_prev_prev, p_lm_prev) ==
    Only({IF ell = l THEN p_lm
          ELSE LegendreLoop(ell + 1, l, abs_m, x, p_lm_prev, p_lm)
          : p_lm \in {FDiv(FSub(FMul(FMul(F(2 * ell - 1, 0), x), p_lm_prev),
                                FMul(F(ell + abs_m - 1, 0), p_lm_prev_prev)),
                           F(ell - abs_m, 0))}})

\* normalization = sqrt((2l+1)/(4*pi) * factorial(l-abs_m) / factorial(l+abs_m))
Normalization(l, m) ==
    LET abs_m == Abs(m)
    IN  FSqrt(FDiv(FMul(FDiv(F(2 * l + 1, 0), FMul(F(4, 0), FPi)),
                        F(factorial(l - abs_m), 0)),
                   F(factorial(l + abs_m), 0)))

spherical_harmonic(l, m, theta, phi0) ==
    IF Abs(m) > l THEN CZero
    ELSE LET abs_m == Abs(m)
             P_mm(x) == FMul(F(MinusOnePow(abs_m) * double_factorial(2 * abs_m - 1), 0),
                             FPow(FSqrt(FSub(FOne, FMul(x, x))), abs_m))
             P_m1m(x, p_mm) == FMul(FMul(x, F(2 * abs_m + 1, 0)), p_mm)
             P_pos(x, p_mm, p_m1m) ==
                 IF l = abs_m THEN p_mm
                 ELSE IF l = abs_m + 1 THEN p_m1m
                 ELSE LegendreLoop(abs_m + 2, l, abs_m, x, p_mm, p_m1m)
             P_lm(p_pos) ==
                 IF m < 0
                 THEN FMul(FDiv(F(MinusOnePow(abs_m) * factorial(l - abs_m), 0),
                                F(factorial(l + abs_m), 0)),
                           p_pos)
                 ELSE p_pos
             Result(np, ex) == [re |-> FMul(np, ex.re), im |-> FMul(np, ex.im)]
         IN  Only({Only({Only({Only({
                 Result(np, ex)
                 : np \in {FMul(Normalization(l, m), P_lm(P_pos(x, p_mm, p_m1m)))},
                   ex \in {CExpI(m, phi)}})
                 : p_m1m \in {P_m1m(x, p_mm)}})
                 : p_mm \in {P_mm(x)}})
                 : x \in {theta}, phi \in {phi0}})

(***************************************************************************)
(* config.Q6_Q4 and config.ELEMENTS                                        *)
(***************************************************************************)
Q6_Q4 == [q6_cutoff |-> F(35, -1), l_q6 |-> 6, l_q4 |-> 4]

ELEMENTS == [target_elements |-> <<"Pt", "Sn", "O">>, metal_elements |-> {"Pt", "Sn"}]

(***************************************************************************)
(* q6_module                                                               *)
(***************************************************************************)
\* Indices of the neighbour candidates (the positions _select_neighbors keeps).
RECURSIVE SelectIdx(_, _, _)
SelectIdx(elements, metal_only, n) ==
    IF n = 0 THEN <<>>
    ELSE SelectIdx(elements, metal_only, n - 1)
         \o (IF metal_only => elements[n] \in {"Pt", "Sn"} THEN <<n>> ELSE <<>>)

_select_neighbors(positions, elements, metal_only) ==
    LET idx == SelectIdx(elements, metal_only, Len(positions))
    IN  [i \in 1..Len(idx) |-> positions[idx[i]]]

\* The distance window closed at the cutoff: (0.1, cutoff].
QVectorsClosed(central_pos, neighbor_positions, cutoff) ==
    LET vecs == [i \in 1..Len(neighbor_positions) |->
                    vector_sub(neighbor_positions[i], central_pos)]
        Valid(vec) == \E dist \in {vector_norm(vec)} :
                          FLt(F(1, -1), dist) /\ FLe(dist, cutoff)
    IN  SelectSeq(vecs, Valid)

\* Lines 29-34: the vectors to the candidates at a distance in (0.1, cutoff).
QVectors(central_pos, neighbor_positions, cutoff) ==
    LET vecs == [i \in 1..Len(neighbor_positions) |->
                    vector_sub(neighbor_positions[i], central_pos)]
        Valid(vec) == \E dist \in {vector_norm(vec)} :
                          FLt(F(1, -1), dist) /\ FLt(dist, cutoff)
    IN  SelectSeq(vecs, Valid)

\* theta = acos(clip(vec[2] / r, -1.0, 1.0)), kept as its cosine.
ThetaOf(vec0) ==
    Only({clip(FDiv(F(vec[3], -1), vector_norm(vec)), F(-1, 0), F(1, 0)) : vec \in {vec0}})

\* phi = atan2(vec[1], vec[0]), kept as (cos, sin); atan2(0, 0) = 0.
PhiOf(vec0) ==
    Only({IF vec[1] = 0 /\ vec[2] = 0 THEN [c |-> FOne, s |-> FZero]
          ELSE Only({[c |-> FDiv(F(vec[1], -1), rho), s |-> FDiv(F(vec[2], -1), rho)]
                     : rho \in {FSqrt(F(vec[1] * vec[1] + vec[2] * vec[2], -2))}})
          : vec \in {vec0}})

\* The lattice sites of the frames the order parameters are computed on
\* (tenths of an Angstrom): a centre, four sites 3.0 A from it on the x and
\* y axes, one site exactly 0.1 A and one exactly 3.5 A from it.
OrderSites ==
    << <<0, 0, 0>>, <<30, 0, 0>>, <<-30, 0, 0>>, <<0, 30, 0>>, <<0, -30, 0>>,
       <<0, 0, 1>>, <<0, 0, 35>> >>

\* Neighbour sites off the axes, around a centre at the origin: 2.8 A,
\* 2.94 A, 2.69 A, 2.69 A and 2.26 A from it.
QShuffleSites ==
    << <<28, 0, 0>>, <<0, 29, 5>>, <<-10, -20, 15>>, <<5, 5, -26>>, <<-20, 10, 3>> >>

\* The term of line 45 for one vector: spherical_harmonic(l, m, theta, phi).
HarmonicOf(vec, l, m) == spherical_harmonic(l, m, ThetaOf(vec), PhiOf(vec))

\* The arguments of HarmonicOf on the vectors between two lattice sites.
HarmonicKeys ==
    LET D == ({vector_sub(OrderSites[i], OrderSites[j]) :
                  i \in 1..Len(OrderSites), j \in 1..Len(OrderSites)}
              \cup {QShuffleSites[i] : i \in 1..Len(QShuffleSites)}) \ {<<0, 0, 0>>}
        T == {<<vec, l, m>> : vec \in D, l \in {Q6_Q4.l_q4, Q6_Q4.l_q6},
                              m \in (-Q6_Q4.l_q6)..Q6_Q4.l_q6}
    IN  {t \in T : Abs(t[3]) <= t[2]}

\* HarmonicOf on the vectors between two lattice sites, computed once.
HarmonicTable == [t \in HarmonicKeys |-> HarmonicOf(t[1], t[2], t[3])]

\* The accumulation that leaves out the first vector.
RECURSIVE QlmSumSkipFirst(_, _, _, _)
QlmSumSkipFirst(vectors, n, l, m) ==
    IF n <= 1 THEN CZero
    ELSE CAdd(QlmSumSkipFirst(vectors, n - 1, l, m), HarmonicTable[<<vectors[n], l, m>>])

\* qlm[m + l] after the loop of lines 41-45.
RECURSIVE QlmSum(_, _, _, _)
QlmSum(vectors, n, l, m) ==
    IF n = 0 THEN CZero
    ELSE CAdd(QlmSum(vectors, n - 1, l, m),
              IF <<vectors[n], l, m>> \in HarmonicKeys
              THEN HarmonicTable[<<vectors[n], l, m>>]
              ELSE HarmonicOf(vectors[n], l, m))

\* Lines 47-50.
QlOfVectors(vectors0, l) ==
    Only({
        LET n == Len(vectors)
            averaged == [k \in 1..(2 * l + 1) |->
                            Only({[re |-> FDiv(q.re, F(n, 0)), im |-> FDiv(q.im, F(n, 0))]
                                  : q \in {QlmSum(vectors, n, l, k - 1 - l)}})]
        IN  Only({FSqrt(FMul(FDiv(FMul(F(4, 0), FPi), F(2 * l + 1, 0)), sum_sq))
                  : sum_sq \in {FSum([k \in 1..(2 * l + 1) |->
                                         FPow(CAbs(averaged[k]), 2)])}})
        : vectors \in {vectors0}})

\* The neighbour threshold of line 36.
MinNeighbors == 4

calc_q_local(central_pos0, positions, elements, cutoff, l, metal_only) ==
    Only({IF Len(neighbor_positions) = 0 THEN FZero
          ELSE Only({IF Len(vectors) < MinNeighbors THEN FZero
                     ELSE QlOfVectors(vectors, l)
                     : vectors \in {QVectors(central_pos, neighbor_positions, cutoff)}})
          : neighbor_positions \in {_select_neighbors(positions, elements, metal_only)},
            central_pos \in {central_pos0}})

\* The configuration entry Q6_Q4['include_oxygen_in_local'] (False as
\* shipped) is an argument here, so that both settings are covered.
calc_q6_fast(central_pos, positions, elements, cutoff, include_oxygen_in_local) ==
    calc_q_local(central_pos, positions, elements, cutoff, 6, ~include_oxygen_in_local)

\* Q4 over every atom of the frame, whatever the inclusion flag.
calc_q4_fast_every_atom(central_pos, positions, elements, cutoff, include_oxygen_in_local) ==
    calc_q_local(central_pos, positions, elements, cutoff, 4, FALSE)

calc_q4_fast(central_pos, positions, elements, cutoff, include_oxygen_in_local) ==
    calc_q_local(central_pos, positions, elements, cutoff, 4, ~include_oxygen_in_local)

(***************************************************************************)
(* global_q6_module                                                        *)
(***************************************************************************)
\* np.isnan(value): no operation of calc_q_local yields a NaN (it returns
\* the float 0.0 or the square root of a finite non-negative sum).
isnan(value) == FALSE

\* np.where(mask)[0]: the indices the mask selects, in order.
RECURSIVE MaskIndices(_, _)
MaskIndices(mask, n) ==
    IF n = 0 THEN <<>>
    ELSE MaskIndices(mask, n - 1) \o (IF mask[n] THEN <<n>> ELSE <<>>)

\* The finite Q6 values of the indices with only the atoms of the indices
\* as neighbour candidates.
Q6ValuesWithinSubset(positions, elements, indices, cutoff, include_oxygen_in_local) ==
    LET Finite(value) == ~isnan(value)
        subset_positions == [k \in 1..Len(indices) |-> positions[indices[k]]]
        subset_elements == [k \in 1..Len(indices) |-> elements[indices[k]]]
    IN  SelectSeq([k \in 1..Len(indices) |->
                      calc_q6_fast(positions[indices[k]], subset_positions,
                                   subset_elements, cutoff, include_oxygen_in_local)],
                  Finite)

\* Lines 19-26: the list of the finite calc_q6_fast values of the indices.
Q6Values(positions, elements, indices, cutoff, include_oxygen_in_local) ==
    LET Finite(value) == ~isnan(value)
    IN  SelectSeq([k \in 1..Len(indices) |->
                      calc_q6_fast(positions[indices[k]], positions, elements, cutoff,
                                   include_oxygen_in_local)],
                  Finite)

_average_q6_for_mask(positions0, elements0, mask, cutoff, include_oxygen_in_local) ==
    Only({IF Len(indices) = 0 THEN FZero
          ELSE Only({IF Len(q6_values) = 0 THEN FZero ELSE FMean(q6_values)
                     : q6_values \in {Q6Values(positions, elements, indices, cutoff,
                                               include_oxygen_in_local)}})
          : indices \in {MaskIndices(mask, Len(mask))},
            positions \in {positions0}, elements \in {elements0}})

\* int(mask.sum())
MaskCount(mask) == Len(MaskIndices(mask, Len(mask)))

\* The entry of one group with the count of the members whose Q6 is not
\* the degenerate 0.0.
GroupEntryCountingOrdered(positions, elements, mask, cutoff, include_oxygen_in_local) ==
    LET NonZero(value) == value # FZero
    IN  [count |-> Len(SelectSeq(Q6Values(positions, elements,
                                          MaskIndices(mask, Len(mask)), cutoff,
                                          include_oxygen_in_local), NonZero)),
         q6_global |-> _average_q6_for_mask(positions, elements, mask, cutoff,
                                            include_oxygen_in_local)]

\* The entry of one group: count and q6_global.
GroupEntry(positions, elements, mask, cutoff, include_oxygen_in_local) ==
    [count |-> MaskCount(mask),
     q6_global |-> _average_q6_for_mask(positions, elements, mask, cutoff,
                                        include_oxygen_in_local)]

\* A group entry of an empty group in place of {}.
ZeroEntry == [count |-> 0, q6_global |-> FZero]

\* A Python dict is a function on its keys; {} is the function on no key.
EmptyDict == <<>>

calc_cluster_analysis(positions, elements, cutoff, include_oxygen_in_local) ==
    IF Len(positions) = 0 \/ Len(elements) = 0
    THEN [cluster |-> [count |-> 0, q6_global |-> FZero],
          metal |-> EmptyDict,
          Pt |-> [count |-> 0, q6_global |-> FZero],
          Sn |-> [count |-> 0, q6_global |-> FZero]]
    ELSE Only({
         [cluster |-> GroupEntry(positions, elements, all_mask, cutoff, include_oxygen_in_local),
          metal |-> IF \E i \in 1..Len(elements) : metal_mask[i]
                    THEN GroupEntry(positions, elements, metal_mask, cutoff,
                                    include_oxygen_in_local)
                    ELSE EmptyDict,
          Pt |-> GroupEntry(positions, elements, pt_mask, cutoff, include_oxygen_in_local),
          Sn |-> GroupEntry(positions, elements, sn_mask, cutoff, include_oxygen_in_local)]
         : pt_mask    \in {[i \in 1..Len(elements) |-> elements[i] = "Pt"]},
           sn_mask    \in {[i \in 1..Len(elements) |-> elements[i] = "Sn"]},
           metal_mask \in {[i \in 1..Len(elements) |->
                               elements[i] \in ELEMENTS.metal_elements]},
           all_mask   \in {[i \in 1..Len(elements) |-> TRUE]}})

(***************************************************************************)
(* geometry_module                                                         *)
(***************************************************************************)
\* A mask that selects every atom.
GeometryMaskAll(elements, elem) == [i \in 1..Len(elements) |-> TRUE]

\* sn_mask = elements == "Sn" ; pt_mask = elements == "Pt" (lines 50-51).
GeometryMask(elements, elem) == [i \in 1..Len(elements) |-> elements[i] = elem]

\* radial_distances[mask]
Masked(values, mask) ==
    LET idx == MaskIndices(mask, Len(mask)) IN [k \in 1..Len(idx) |-> values[idx[k]]]

_average_distance(radial_distances, mask) ==
    IF Len(radial_distances) = 0 \/ ~(\E i \in 1..Len(mask) : mask[i])
    THEN FZero
    ELSE FMean(Masked(radial_distances, mask))

\* center = positions.mean(axis=0): per component, the sum over the atoms
\* divided by their number.
GeometryCenter(positions) ==
    [c \in 1..3 |-> FDiv(FSum([i \in 1..Len(positions) |-> F(positions[i][c], -1)]),
                         F(Len(positions), 0))]

\* displacements = positions - center
GeometryDisplacements(positions, center) ==
    [i \in 1..Len(positions) |-> [c \in 1..3 |-> FSub(F(positions[i][c], -1), center[c])]]

\* np.sum(d**2) of one displacement.
SquaredNorm(d0) ==
    Only({FAdd(FAdd(FMul(d[1], d[1]), FMul(d[2], d[2])), FMul(d[3], d[3])) : d \in {d0}})

calc_geometry_statistics(positions, elements) ==
    IF Len(positions) = 0 \/ Len(elements) = 0
    THEN [sn_avg_dist_to_center |-> FZero,
          pt_avg_dist_to_center |-> FZero,
          gyration_radius |-> FZero]
    ELSE Only({Only({Only({
             [sn_avg_dist_to_center |->
                 _average_distance(radial_distances, GeometryMask(elements, "Sn")),
              pt_avg_dist_to_center |->
                 _average_distance(radial_distances, GeometryMask(elements, "Pt")),
              gyration_radius |-> FSqrt(FMean(squares))]
             : radial_distances \in {[i \in 1..Len(squares) |-> FSqrt(squares[i])]}})
             : squares \in {[i \in 1..Len(displacements) |->
                                SquaredNorm(displacements[i])]}})
             : displacements \in
                   {GeometryDisplacements(positions, GeometryCenter(positions))}})

(***************************************************************************)
(* Inputs of the order-parameter entry points                              *)
(***************************************************************************)
\* The element on every site: single-species frames and mixed ones.
ElementPatterns ==
    { [i \in 1..Len(OrderSites) |-> "Pt"],
      [i \in 1..Len(OrderSites) |-> "Sn"],
      [i \in 1..Len(OrderSites) |-> "O"],
      <<"Pt", "Pt", "Sn", "Sn", "Pt", "Sn", "Pt">>,
      <<"Pt", "Pt", "Sn", "Pt", "O", "Sn", "O">>,
      <<"O", "Pt", "Pt", "Sn", "Sn", "Pt", "Pt">> }

\* The occupied sites of a frame, in file order.
RECURSIVE SeqOfSet(_, _)
SeqOfSet(S, n) ==
    IF n = 0 THEN <<>>
    ELSE SeqOfSet(S, n - 1) \o (IF n \in S THEN <<n>> ELSE <<>>)

FramePositions(S) ==
    LET idx == SeqOfSet(S, Len(OrderSites)) IN [i \in 1..Len(idx) |-> OrderSites[idx[i]]]

FrameElements(S, pat) ==
    LET idx == SeqOfSet(S, Len(OrderSites)) IN [i \in 1..Len(idx) |-> pat[idx[i]]]

CalcQLocal ==
    /\ op = "none"
    /\ \E S \in SUBSET (1..Len(OrderSites)), pat \in ElementPatterns,
          l \in {Q6_Q4.l_q4, Q6_Q4.l_q6}, metal_only \in BOOLEAN :
          \E positions \in {FramePositions(S)}, elements \in {FrameElements(S, pat)} :
              /\ op' = "calc_q_local"
              /\ arg' = [central_pos |-> OrderSites[1], positions |-> positions,
                         elements |-> elements, cutoff |-> Q6_Q4.q6_cutoff, l |-> l,
                         metal_only |-> metal_only]
              /\ ret' = calc_q_local(OrderSites[1], positions, elements,
                                     Q6_Q4.q6_cutoff, l, metal_only)

CalcClusterAnalysis ==
    /\ op = "none"
    /\ \E S \in SUBSET (1..Len(OrderSites)), pat \in ElementPatterns,
          include_oxygen_in_local \in BOOLEAN :
          \E positions \in {FramePositions(S)}, elements \in {FrameElements(S, pat)} :
              /\ op' = "calc_cluster_analysis"
              /\ arg' = [positions |-> positions, elements |-> elements,
                         cutoff |-> Q6_Q4.q6_cutoff,
                         include_oxygen_in_local |-> include_oxygen_in_local]
              /\ ret' = calc_cluster_analysis(positions, elements, Q6_Q4.q6_cutoff,
                                              include_oxygen_in_local)

(***************************************************************************)
(* Inputs of the coordination entry points                                 *)
(***************************************************************************)
\* Lattice sites an atom may occupy (tenths of an Angstrom).
CoordSites ==
    << <<0, 0, 0>>, <<1, 0, 0>>, <<28, 0, 0>>, <<0, 45, 0>>, <<29, 5, 0>> >>

\* The sites a central position is taken from.
CoordCentres == {1, 3}

\* A frame puts Pt, Sn or nothing on every site.
CoordFrames == [1..Len(CoordSites) -> {"-", "Pt", "Sn"}]

\* positions[elements == elem] (v6_2_3_main_Version2.py lines 195-199).
RECURSIVE PositionsOf(_, _, _, _)
PositionsOf(sites, frame, elem, n) ==
    IF n = 0 THEN <<>>
    ELSE PositionsOf(sites, frame, elem, n - 1)
         \o (IF frame[n] = elem THEN <<sites[n]>> ELSE <<>>)

CalcBondSpecificCnSmooth ==
    /\ op = "none"
    /\ \E frame \in CoordFrames, c \in CoordCentres, elem \in {"Pt", "Sn", "O"} :
          LET pt == PositionsOf(CoordSites, frame, "Pt", Len(CoordSites))
              sn == PositionsOf(CoordSites, frame, "Sn", Len(CoordSites))
          IN  /\ op' = "calc_bond_specific_cn_smooth"
              /\ arg' = [central_pos |-> CoordSites[c], central_element |-> elem,
                         pt_positions |-> pt, sn_positions |-> sn]
              /\ ret' = calc_bond_specific_cn_smooth(CoordSites[c], elem, pt, sn)

CalcGcnDescriptors ==
    /\ op = "none"
    /\ \E frame \in CoordFrames, c \in CoordCentres, enable \in BOOLEAN :
          LET pt == PositionsOf(CoordSites, frame, "Pt", Len(CoordSites))
              sn == PositionsOf(CoordSites, frame, "Sn", Len(CoordSites))
          IN  /\ op' = "calc_gcn_descriptors"
              /\ arg' = [enable |-> enable, central_pos |-> CoordSites[c],
                         pt_positions |-> pt, sn_positions |-> sn]
              /\ ret' = calc_gcn_descriptors(enable, CoordSites[c], pt, sn)

(***************************************************************************)
(* v6_2_3_main_Version2: detect_elements and the per-atom loop of          *)
(* analyze_trajectory                                                      *)
(***************************************************************************)
\* The members of a sequence.
Range(s) == {s[i] : i \in 1..Len(s)}

\* detect_elements: the configured target elements that occur in a frame of
\* the trajectory, in configuration order.
detect_elements(frames, target_elements) ==
    LET all_elements == UNION {Range(frames[k].elements) : k \in 1..Len(frames)}
        Seen(e) == e \in all_elements
    IN  SelectSeq(target_elements, Seen)

\* The loop targets without the restriction to the metal elements.
DetectedTargets(frames) == detect_elements(frames, ELEMENTS.target_elements)

\* Line 129: target_elements = [e for e in detected_elements if e in
\* ELEMENTS['metal_elements']].
AnalysisTargets(frames) ==
    LET Metal(e) == e \in ELEMENTS.metal_elements
    IN  SelectSeq(detect_elements(frames, ELEMENTS.target_elements), Metal)

\* positions[elements == elem] (lines 195-199).
RolePositions(positions, elements, elem) ==
    LET idx == MaskIndices([i \in 1..Len(elements) |-> elements[i] = elem], Len(elements))
    IN  [k \in 1..Len(idx) |-> positions[idx[k]]]

\* np.where(elements == target_atom)[0] (lines 233-234).
TargetIndices(elements, target_atom) ==
    MaskIndices([i \in 1..Len(elements) |-> elements[i] = target_atom], Len(elements))

\* The body of the loop over target_indices (lines 252-277) for one atom:
\* the arguments of the coordination call and what the four calls return.
\* GCN['enable'] and Q6_Q4['include_oxygen_in_local'] are read from the
\* configuration at every call.
AtomDescriptors(positions, elements, target_atom, target_idx, enable, include_oxygen_in_local) ==
    Only({[bond_cn_call |-> [central_pos |-> central_pos, central_element |-> target_atom,
                             pt_positions |-> pt_positions, sn_positions |-> sn_positions],
           bond_cn |-> calc_bond_specific_cn_smooth(central_pos, target_atom,
                                                    pt_positions, sn_positions),
           gcn_descriptors |->
               IF enable
               THEN calc_gcn_descriptors(enable, central_pos, pt_positions, sn_positions)
               ELSE <<>>,
           q6 |-> calc_q6_fast(central_pos, positions, elements, Q6_Q4.q6_cutoff,
                               include_oxygen_in_local),
           q4 |-> calc_q4_fast(central_pos, positions, elements, Q6_Q4.q6_cutoff,
                               include_oxygen_in_local)]
          : central_pos \in {positions[target_idx]},
            pt_positions \in {RolePositions(positions, elements, "Pt")},
            sn_positions \in {RolePositions(positions, elements, "Sn")}})

\* The two switches of the configuration the loop body reads: as shipped
\* (GCN enabled, oxygen left out of the local order parameters) and both
\* flipped.
DriverSwitches ==
    {[enable |-> TRUE, include_oxygen_in_local |-> FALSE],
     [enable |-> FALSE, include_oxygen_in_local |-> TRUE]}

\* One atom of one frame of a one-frame trajectory, as the loops of lines
\* 188, 232 and 251 reach it.
AnalyzeAtom ==
    /\ op = "none"
    /\ \E S \in SUBSET (1..Len(OrderSites)), pat \in ElementPatterns, sw \in DriverSwitches :
          \E enable \in {sw.enable}, include_oxygen_in_local \in {sw.include_oxygen_in_local} :
          \E positions \in {FramePositions(S)}, elements \in {FrameElements(S, pat)} :
          \E target_atom \in
                 Range(AnalysisTargets(<<[positions |-> positions, elements |-> elements]>>)) :
          \E target_idx \in Range(TargetIndices(elements, target_atom)) :
              /\ op' = "analyze_trajectory"
              /\ arg' = [positions |-> positions, elements |-> elements,
                         target_atom |-> target_atom, target_idx |-> target_idx,
                         enable |-> enable,
                         include_oxygen_in_local |-> include_oxygen_in_local]
              /\ ret' = AtomDescriptors(positions, elements, target_atom, target_idx,
                                        enable, include_oxygen_in_local)

(***************************************************************************)
(* v6_2_3_main_Version2.analyze_trajectory: the loop over the frames and   *)
(* the three time series                                                   *)
(***************************************************************************)
\* An entry of a column of unified_time_series is <<v>> for the value v (a
\* float, an integer or a structure label) and <<>> for np.nan.
NaN == <<>>

\* Lines 148-165: the columns of unified_time_series of one element.
ElementColumns(elem, enable) ==
    {elem \o "_cn_total", elem \o "_cn_" \o elem \o "_" \o elem}
    \cup (IF elem = "Pt" THEN {elem \o "_cn_Pt_Sn"}
          ELSE IF elem = "Sn" THEN {elem \o "_cn_Sn_Pt"} ELSE {})
    \cup (IF enable
          THEN {elem \o "_gcn_loc", elem \o "_w_gcn_loc", elem \o "_sn_w_gcn_loc",
                elem \o "_shell_gcn_loc"}
          ELSE {})
    \cup {elem \o "_q6", elem \o "_q4", elem \o "_structure"}

\* Lines 142-165: unified_time_series with every column empty.
NewUnifiedSeries(target_elements, enable) ==
    [key \in {"frame", "time_ps"}
               \cup UNION {ElementColumns(target_elements[n], enable)
                           : n \in 1..Len(target_elements)} |-> <<>>]

\* Lines 168-175 and 178-184.
NewGlobalQ6Series ==
    [key \in {"frame", "time_ps", "cluster_all_q6_global", "cluster_metal_q6_global",
              "pt_q6_global", "sn_q6_global"} |-> <<>>]

NewGeometrySeries ==
    [key \in {"frame", "time_ps", "sn_avg_dist_to_center", "pt_avg_dist_to_center",
              "gyration_radius"} |-> <<>>]

\* The field of every descriptor record of a list.
FieldOf(records, field) == [n \in 1..Len(records) |-> records[n][field]]

\* Lines 232-291 for one target element with atoms in the frame: the
\* entries the element adds to frame_data.
ElementFrameData(positions, elements, target_atom, enable, include_oxygen_in_local) ==
    Only({Only({
        [key \in ElementColumns(target_atom, enable) |->
            IF key = target_atom \o "_cn_total"
                THEN FMean(FieldOf(FieldOf(atoms, "bond_cn"), "cn_total"))
            ELSE IF key = target_atom \o "_cn_" \o target_atom \o "_" \o target_atom
                THEN FMean(FieldOf(FieldOf(atoms, "bond_cn"), "cn_center_center"))
            ELSE IF key \in {target_atom \o "_cn_Pt_Sn", target_atom \o "_cn_Sn_Pt"}
                THEN FMean(FieldOf(FieldOf(atoms, "bond_cn"), "cn_center_other"))
            ELSE IF key = target_atom \o "_gcn_loc"
                THEN FMean(FieldOf(FieldOf(atoms, "gcn_descriptors"), "gcn_loc"))
            ELSE IF key = target_atom \o "_w_gcn_loc"
                THEN FMean(FieldOf(FieldOf(atoms, "gcn_descriptors"), "w_gcn_loc"))
            ELSE IF key = target_atom \o "_sn_w_gcn_loc"
                THEN FMean(FieldOf(FieldOf(atoms, "gcn_descriptors"), "sn_w_gcn_loc"))
            ELSE IF key = target_atom \o "_shell_gcn_loc"
                THEN FMean(FieldOf(FieldOf(atoms, "gcn_descriptors"), "shell_gcn_loc"))
            ELSE IF key = target_atom \o "_q6" THEN avg_q6
            ELSE IF key = target_atom \o "_q4" THEN avg_q4
            ELSE classify_structure_advanced(avg_q4, avg_q6)]
        : avg_q6 \in {FMean(FieldOf(atoms, "q6"))},
          avg_q4 \in {FMean(FieldOf(atoms, "q4"))}})
        : atoms \in {[n \in 1..Len(TargetIndices(elements, target_atom)) |->
                        AtomDescriptors(positions, elements, target_atom,
                                        TargetIndices(elements, target_atom)[n],
                                        enable, include_oxygen_in_local)] \o <<>>}})

\* Lines 226-291: frame_data of one frame, a dict from the columns that
\* have a value in the frame to the value.
FrameData(frame, frame_idx, target_elements, enable, include_oxygen_in_local, sample_interval, dt_ps) ==
    LET present == {n \in 1..Len(target_elements) :
                       Len(TargetIndices(frame.elements, target_elements[n])) > 0}
    IN  Only({
        [key \in {"frame", "time_ps"} \cup UNION {DOMAIN of[n] : n \in present} |->
            IF key = "frame" THEN frame_idx * sample_interval
            ELSE IF key = "time_ps" THEN FMul(F(frame_idx * sample_interval, 0), dt_ps)
            ELSE of[CHOOSE n \in present : key \in DOMAIN of[n]][key]]
        : of \in {[n \in 1..Len(target_elements) |->
                     IF n \in present
                     THEN ElementFrameData(frame.positions, frame.elements,
                                           target_elements[n], enable,
                                           include_oxygen_in_local) @@ <<>>
                     ELSE <<>>] \o <<>>}})

\* The loop of lines 294-300 that appends only the values frame_data holds.
AppendFrameDataPresentOnly(series, frame_data) ==
    [key \in DOMAIN series |->
        IF key \in DOMAIN frame_data THEN Append(series[key], <<frame_data[key]>>)
        ELSE series[key]]

\* Lines 294-300: every column takes the value of frame_data or NaN.
AppendFrameData(series, frame_data) ==
    [key \in DOMAIN series |->
        IF key \in DOMAIN frame_data THEN Append(series[key], <<frame_data[key]>>)
        ELSE Append(series[key], NaN)]

\* Lines 202-209: the row of global_q6_series of one frame.
GlobalQ6Row(frame, frame_idx, include_oxygen_in_local, sample_interval, dt_ps) ==
    Only({[key \in DOMAIN NewGlobalQ6Series |->
             IF key = "frame" THEN frame_idx * sample_interval
             ELSE IF key = "time_ps" THEN FMul(F(frame_idx * sample_interval, 0), dt_ps)
             ELSE IF key = "cluster_all_q6_global" THEN q6_result.cluster.q6_global
             ELSE IF key = "cluster_metal_q6_global"
                  THEN (IF q6_result.metal = EmptyDict THEN FZero
                        ELSE q6_result.metal.q6_global)
             ELSE IF key = "pt_q6_global" THEN q6_result.Pt.q6_global
             ELSE q6_result.Sn.q6_global]
          : q6_result \in {calc_cluster_analysis(frame.positions, frame.elements,
                                                 Q6_Q4.q6_cutoff,
                                                 include_oxygen_in_local)}})

\* Lines 216-221: the row of geometry_series of one frame.
GeometryRow(frame, frame_idx, sample_interval, dt_ps) ==
    Only({[key \in DOMAIN NewGeometrySeries |->
             IF key = "frame" THEN frame_idx * sample_interval
             ELSE IF key = "time_ps" THEN FMul(F(frame_idx * sample_interval, 0), dt_ps)
             ELSE geo_stats[key]]
          : geo_stats \in {calc_geometry_statistics(frame.positions, frame.elements)}})

\* Every column of a series extended by its value of the row.
AppendRow(series, row) == [key \in DOMAIN series |-> Append(series[key], row[key])]

\* The frames of the trajectories: both roles, Pt alone, Sn with the
\* bystander, the bystander alone, and a frame of no atom.
SeriesFrames ==
    { [positions |-> << <<0, 0, 0>>, <<28, 0, 0>> >>, elements |-> <<"Pt", "Sn">>],
      [positions |-> << <<0, 0, 0>>, <<30, 0, 0>>, <<0, 30, 0>> >>,
       elements |-> <<"Pt", "Pt", "Pt">>],
      [positions |-> << <<0, 0, 0>>, <<0, 30, 0>> >>, elements |-> <<"Sn", "O">>],
      [positions |-> << <<0, 0, 0>> >>, elements |-> <<"O">>],
      [positions |-> <<>>, elements |-> <<>>] }

\* The longest trajectory.
MaxTrajectory == 2

\* Lines 116-134 and 141-184: the trajectory is read, the target elements
\* are detected and the three series are created; no frame or no metal
\* element returns None before any series exists.
AnalyzeOpen ==
    /\ op = "none"
    /\ \E n \in 0..MaxTrajectory, sw \in DriverSwitches,
          timing \in {[sample_interval |-> 10, dt_ps |-> F(1, 0)],
                      [sample_interval |-> 3, dt_ps |-> F(5, -1)]} :
          \E frames \in [1..n -> SeriesFrames] :
          \E target_elements \in {AnalysisTargets(frames)},
             sample_interval \in {timing.sample_interval}, dt_ps \in {timing.dt_ps} :
              /\ op' = "analyze_trajectory_frames"
              /\ arg' = [frames |-> frames, target_elements |-> target_elements,
                         enable |-> sw.enable,
                         include_oxygen_in_local |-> sw.include_oxygen_in_local,
                         sample_interval |-> sample_interval, dt_ps |-> dt_ps]
              /\ ret' = IF Len(frames) = 0 \/ Len(target_elements) = 0
                        THEN [pc |-> "None", frame_idx |-> 0,
                              unified_time_series |-> EmptyDict,
                              global_q6_series |-> EmptyDict,
                              geometry_series |-> EmptyDict]
                        ELSE [pc |-> "loop", frame_idx |-> 0,
                              unified_time_series |->
                                  NewUnifiedSeries(target_elements, sw.enable),
                              global_q6_series |-> NewGlobalQ6Series,
                              geometry_series |-> NewGeometrySeries]

\* One pass of the loop of line 188 (lines 189-300) over the next frame.
AnalyzeFrame ==
    /\ op = "analyze_trajectory_frames"
    /\ ret.pc = "loop"
    /\ ret.frame_idx < Len(arg.frames)
    /\ \E frame \in {arg.frames[ret.frame_idx + 1]} :
       \E frame_data \in {FrameData(frame, ret.frame_idx, arg.target_elements,
                                    arg.enable, arg.include_oxygen_in_local,
                                    arg.sample_interval, arg.dt_ps) @@ <<>>},
          q6_row \in {GlobalQ6Row(frame, ret.frame_idx, arg.include_oxygen_in_local,
                                  arg.sample_interval, arg.dt_ps) @@ <<>>},
          geometry_row \in {GeometryRow(frame, ret.frame_idx, arg.sample_interval,
                                        arg.dt_ps) @@ <<>>} :
          ret' = [pc |-> "loop",
                  frame_idx |-> ret.frame_idx + 1,
                  unified_time_series |->
                      AppendFrameData(ret.unified_time_series, frame_data),
                  global_q6_series |-> AppendRow(ret.global_q6_series, q6_row),
                  geometry_series |-> AppendRow(ret.geometry_series, geometry_row)]
    /\ UNCHANGED <<op, arg>>

\* The function returns: None, or after the last frame (lines 302-325).
AnalyzeReturn ==
    /\ op = "analyze_trajectory_frames"
    /\ ret.pc = "None" \/ ret.frame_idx = Len(arg.frames)
    /\ op' = "none"
    /\ arg' = <<>>
    /\ ret' = <<>>

(***************************************************************************)
(* The same entry points on neighbour lists in every order                 *)
(***************************************************************************)
\* The sequence s read in the order p.
Permuted(s, p) == [i \in 1..Len(s) |-> s[p[i]]]

\* The element on each of the QShuffleSites.
QShuffleElements == <<"Pt", "Sn", "Pt", "O", "Sn">>

\* Neighbour sites of the GCN calls around a centre at the origin: 2.8 A,
\* 2.0 A, 1.0 A and 2.94 A from it.
GcnShuffleSites == << <<28, 0, 0>>, <<0, 20, 0>>, <<10, 0, 0>>, <<29, 5, 0>> >>

CalcQLocalAnyOrder ==
    /\ op = "none"
    /\ \E p \in Permutations(1..Len(QShuffleSites)),
          l \in {Q6_Q4.l_q4, Q6_Q4.l_q6}, metal_only \in BOOLEAN :
          \E positions \in {Permuted(QShuffleSites, p)},
             elements \in {Permuted(QShuffleElements, p)} :
              /\ op' = "calc_q_local"
              /\ arg' = [central_pos |-> <<0, 0, 0>>, positions |-> positions,
                         elements |-> elements, cutoff |-> Q6_Q4.q6_cutoff, l |-> l,
                         metal_only |-> metal_only]
              /\ ret' = calc_q_local(<<0, 0, 0>>, positions, elements,
                                     Q6_Q4.q6_cutoff, l, metal_only)

CalcGcnDescriptorsAnyOrder ==
    /\ op = "none"
    /\ \E p \in Permutations(1..Len(GcnShuffleSites)),
          frame \in [1..Len(GcnShuffleSites) -> {"Pt", "Sn"}], enable \in BOOLEAN :
          \E sites \in {Permuted(GcnShuffleSites, p)} :
          \E pt \in {PositionsOf(sites, frame, "Pt", Len(sites))},
             sn \in {PositionsOf(sites, frame, "Sn", Len(sites))} :
              /\ op' = "calc_gcn_descriptors"
              /\ arg' = [enable |-> enable, central_pos |-> <<0, 0, 0>>,
                         pt_positions |-> pt, sn_positions |-> sn]
              /\ ret' = calc_gcn_descriptors(enable, <<0, 0, 0>>, pt, sn)

(***************************************************************************)
(* Inputs of calc_gcn_descriptors on the bounds of its windows             *)
(***************************************************************************)
\* A centre and neighbour sites exactly 2.0, 2.5, 2.8, 3.0 and 3.5 A from
\* it: the bounds of the shipped windows and of the shipped cutoff.
GcnSites ==
    << <<0, 0, 0>>, <<0, 0, 20>>, <<15, 20, 0>>, <<28, 0, 0>>, <<0, -30, 0>>, <<0, 0, -35>> >>

\* Configuration tables: the shipped one, the shipped one with both
\* weights of the weighted variant 1.0, and one with other standard,
\* weighted and shell parameters around the shipped window of the windowed
\* variant.
GcnTables ==
    {GCN,
     [GCN EXCEPT !.weighted.pt_weight = F(10, -1), !.weighted.sn_weight = F(10, -1)],
     [GCN EXCEPT !.standard = [r0 |-> F(5, -1), cutoff |-> F(25, -1)],
                 !.weighted = [r0 |-> F(5, -1), pt_weight |-> F(10, -1),
                               sn_weight |-> F(10, -1), cutoff |-> F(25, -1)],
                 !.shell.shells =
                    << [r_min |-> F(20, -1), r_max |-> F(30, -1),
                        pt_weight |-> F(5, -1), sn_weight |-> F(15, -1)],
                       [r_min |-> F(28, -1), r_max |-> F(35, -1),
                        pt_weight |-> F(10, -1), sn_weight |-> F(10, -1)] >>]}

CalcGcnDescriptorsUnder ==
    /\ op = "none"
    /\ \E frame \in [1..Len(GcnSites) -> {"-", "Pt", "Sn"}], gcn \in GcnTables :
          \E pt \in {PositionsOf(GcnSites, frame, "Pt", Len(GcnSites))},
             sn \in {PositionsOf(GcnSites, frame, "Sn", Len(GcnSites))} :
              /\ op' = "calc_gcn_descriptors"
              /\ arg' = [gcn |-> gcn, enable |-> TRUE, central_pos |-> GcnSites[1],
                         pt_positions |-> pt, sn_positions |-> sn]
              /\ ret' = calc_gcn_descriptors_under(gcn, TRUE, GcnSites[1], pt, sn)

(***************************************************************************)
(* v6_2_3_main_Version2.read_xyz_fast                                      *)
(***************************************************************************)
\* The lines a file is made of: atom-count headers, an atom line of four
\* fields and a comment line of one field.
XyzLines == {"2", "1", "0", "-2", "-3", "Pt 0.0 0.0 0.0", "comment"}

\* The longest file and the longest list of frames.
MaxLines == 4

MaxFrames == 3

\* int(line.strip()) of a line for which it succeeds.
IntOf(line) ==
    CASE line = "2" -> 2
      [] line = "1" -> 1
      [] line = "0" -> 0
      [] line = "-2" -> -2
      [] line = "-3" -> -3

\* lines[i] of a Python list: a negative index counts from the end.
ListItem(lines, i) == IF i >= 0 THEN lines[i + 1] ELSE lines[Len(lines) + i + 1]

\* Lines 59-63: the atoms of the n_atoms lines from index i on; a line of
\* fewer than four fields adds no atom.
RECURSIVE AtomsFrom(_, _, _)
AtomsFrom(lines, i, n_atoms) ==
    IF n_atoms <= 0 THEN <<>>
    ELSE AtomsFrom(lines, i, n_atoms - 1)
         \o (IF ListItem(lines, i + n_atoms - 1) = "Pt 0.0 0.0 0.0"
             THEN << [element |-> "Pt", position |-> <<0, 0, 0>>] >>
             ELSE <<>>)

\* One evaluation of the loop test of line 43 and, when it holds, one pass
\* through the body (lines 44-70): the index, the frames and whether the
\* loop goes on.  An index below -len raises IndexError and a line that is
\* no integer raises ValueError in int(); the bare except of line 46
\* catches both.
ReadXyzPass(lines, i, frames) ==
    IF ~(i < Len(lines)) THEN [i |-> i, frames |-> frames, pc |-> "done"]
    ELSE IF i < -Len(lines) \/ ListItem(lines, i) \notin {"2", "1", "0", "-2", "-3"}
    THEN [i |-> i + 1, frames |-> frames, pc |-> "loop"]
    ELSE Only({
         IF i + n_atoms + 1 >= Len(lines) THEN [i |-> i, frames |-> frames, pc |-> "done"]
         ELSE [i |-> i + 2 + n_atoms,
               frames |-> Append(frames, AtomsFrom(lines, i + 2, n_atoms)),
               pc |-> "loop"]
         : n_atoms \in {IntOf(ListItem(lines, i))}})

\* Lines 37-42: the file is read and the loop starts at its first line.
ReadXyzOpen ==
    /\ op = "none"
    /\ \E n \in 0..MaxLines : \E lines \in [1..n -> XyzLines] :
          /\ op' = "read_xyz_fast"
          /\ arg' = [lines |-> lines]
          /\ ret' = [i |-> 0, frames |-> <<>>, pc |-> "loop"]

\* One pass of the loop; a list of MaxFrames frames is not extended.
ReadXyzIteration ==
    /\ op = "read_xyz_fast"
    /\ ret.pc = "loop"
    /\ Len(ret.frames) < MaxFrames
    /\ ret' = ReadXyzPass(arg.lines, ret.i, ret.frames)
    /\ UNCHANGED <<op, arg>>

\* Line 72: return frames.
ReadXyzReturn ==
    /\ op = "read_xyz_fast"
    /\ ret.pc = "done"
    /\ op' = "none"
    /\ arg' = <<>>
    /\ ret' = <<>>

(***************************************************************************)
(* Inputs of spherical_harmonic, and calc_q_local on the octahedron        *)
(***************************************************************************)
\* Directions the harmonics are evaluated in: the five neighbour sites off
\* the axes, one on the x axis and one on the z axis.
HarmonicDirections == QShuffleSites \o << <<30, 0, 0>>, <<0, 0, 35>> >>

\* The six octahedral neighbour vectors (+-1,0,0), (0,+-1,0), (0,0,+-1),
\* scaled to the length scale tenths of an Angstrom.
Octahedron(scale) ==
    << <<scale, 0, 0>>, <<-scale, 0, 0>>, <<0, scale, 0>>, <<0, -scale, 0>>,
       <<0, 0, scale>>, <<0, 0, -scale>> >>

\* Lengths of the octahedral vectors inside the cutoff of 3.5 A: 1.0 A,
\* 2.5 A, 3.0 A and 3.4 A.
OctahedronScales == {10, 25, 30, 34}

CalcSphericalHarmonic ==
    /\ op = "none"
    /\ \E i \in 1..Len(HarmonicDirections), l \in {Q6_Q4.l_q4, Q6_Q4.l_q6} :
          \E m \in (-l)..l :
              \E theta \in {ThetaOf(HarmonicDirections[i])},
                 phi \in {PhiOf(HarmonicDirections[i])} :
                  /\ op' = "spherical_harmonic"
                  /\ arg' = [l |-> l, m |-> m, theta |-> theta, phi |-> phi]
                  /\ ret' = spherical_harmonic(l, m, theta, phi)

CalcQLocalOctahedron ==
    /\ op = "none"
    /\ \E scale \in OctahedronScales, l \in {Q6_Q4.l_q4, Q6_Q4.l_q6},
          metal_only \in BOOLEAN :
          \E positions \in {Octahedron(scale)},
             elements \in {[i \in 1..6 |-> "Pt"]} :
              /\ op' = "calc_q_local"
              /\ arg' = [central_pos |-> <<0, 0, 0>>, positions |-> positions,
                         elements |-> elements, cutoff |-> Q6_Q4.q6_cutoff, l |-> l,
                         metal_only |-> metal_only]
              /\ ret' = calc_q_local(<<0, 0, 0>>, positions, elements,
                                     Q6_Q4.q6_cutoff, l, metal_only)

(***************************************************************************)
(* Inputs of calc_geometry_statistics                                      *)
(***************************************************************************)
\* Lattice sites of the geometry frames: the origin and three sites off it.
GeometrySites == << <<0, 0, 0>>, <<30, 0, 0>>, <<0, 40, 0>>, <<10, 20, 20>> >>

\* A frame puts Pt, Sn, O or nothing on every site.
GeometryFrames == [1..Len(GeometrySites) -> {"-", "Pt", "Sn", "O"}]

\* The occupied sites of a frame, in file order.
Occupied(frame) ==
    MaskIndices([i \in 1..Len(frame) |-> frame[i] # "-"], Len(frame))

CalcGeometryStatistics ==
    /\ op = "none"
    /\ \E frame \in GeometryFrames :
          \E idx \in {Occupied(frame)} :
          \E positions \in {[k \in 1..Len(idx) |-> GeometrySites[idx[k]]]},
             elements \in {[k \in 1..Len(idx) |-> frame[idx[k]]]} :
              /\ op' = "calc_geometry_statistics"
              /\ arg' = [positions |-> positions, elements |-> elements]
              /\ ret' = calc_geometry_statistics(positions, elements)

(***************************************************************************)
(* The entry points called by concurrent workers of a host pipeline        *)
(*                                                                         *)
(* In the specification of the workers, op maps every worker to the query  *)
(* it is executing (Idle when it has none), arg holds what was loaded before    *)
(* the first call and the memory the workers share since (the switches of  *)
(* the configuration tables and the arrays of the frame), and ret maps     *)
(* every finished query to what its call returned.                         *)
(***************************************************************************)
Workers == {1, 2}

Idle == [fn |-> "none", idx |-> 0]

\* The frames of the trajectory: five atoms on the first sites, and three
\* atoms.
Trajectory ==
    << [positions |-> FramePositions({1, 2, 3, 4, 5}),
        elements |-> <<"Pt", "Pt", "Sn", "Pt", "O">>],
       [positions |-> FramePositions({1, 2, 6}),
        elements |-> <<"Sn", "Pt", "Sn">>] >>

\* The memory after the configuration is imported and a frame is taken
\* (lines 26, 192-199): the two switches the calls read and the arrays they
\* are handed.
LoadedMemory(loaded) ==
    LET frame == Trajectory[loaded.frame_idx]
    IN  [enable |-> loaded.switches.enable,
         include_oxygen_in_local |-> loaded.switches.include_oxygen_in_local,
         positions |-> frame.positions,
         elements |-> frame.elements,
         pt_positions |-> RolePositions(frame.positions, frame.elements, "Pt"),
         sn_positions |-> RolePositions(frame.positions, frame.elements, "Sn")]

\* The queries on a frame: the four per-atom entry points on its first atom
\* and the two per-frame entry points.
Queries ==
    {[fn |-> f, idx |-> 1] : f \in {"calc_bond_specific_cn_smooth", "calc_gcn_descriptors",
                                    "calc_q6_fast", "calc_q4_fast"}}
    \cup {[fn |-> f, idx |-> 0] : f \in {"calc_cluster_analysis", "calc_geometry_statistics"}}

\* What the call of a query returns when it reads the memory mem.
QueryResult(q, mem) ==
    CASE q.fn = "calc_bond_specific_cn_smooth" ->
            calc_bond_specific_cn_smooth(mem.positions[q.idx], mem.elements[q.idx],
                                         mem.pt_positions, mem.sn_positions)
      [] q.fn = "calc_gcn_descriptors" ->
            calc_gcn_descriptors(mem.enable, mem.positions[q.idx],
                                 mem.pt_positions, mem.sn_positions)
      [] q.fn = "calc_q6_fast" ->
            calc_q6_fast(mem.positions[q.idx], mem.positions, mem.elements,
                         Q6_Q4.q6_cutoff, mem.include_oxygen_in_local)
      [] q.fn = "calc_q4_fast" ->
            calc_q4_fast(mem.positions[q.idx], mem.positions, mem.elements,
                         Q6_Q4.q6_cutoff, mem.include_oxygen_in_local)
      [] q.fn = "calc_cluster_analysis" ->
            calc_cluster_analysis(mem.positions, mem.elements, Q6_Q4.q6_cutoff,
                                  mem.include_oxygen_in_local)
      [] q.fn = "calc_geometry_statistics" ->
            calc_geometry_statistics(mem.positions, mem.elements)

\* The write set of calc_gcn_descriptors with the Pt positions shifted in
\* place.
WrittenInPlaceWithInput(fn) ==
    CASE fn = "calc_bond_specific_cn_smooth" -> {"den", "sw", "result"}
      [] fn = "calc_gcn_descriptors" ->
            {"gcn_weights", "pt_weights", "sn_weights", "pt_positions"}
      [] fn \in {"calc_q6_fast", "calc_q4_fast"} -> {"vectors", "distances", "qlm"}
      [] fn = "calc_cluster_analysis" ->
            {"q6_values", "result", "vectors", "distances", "qlm"}
      [] OTHER -> {}

\* The objects a call assigns into or appends to: den and sw in
\* plumed_switch (coordination_module lines 34-37) and the result dict
\* (lines 79-123); the three weight arrays of calc_gcn_descriptors (lines
\* 151, 158, 159); vectors, distances and qlm in calc_q_local (q6_module
\* lines 33, 34, 45); q6_values and result in global_q6_module (lines 26,
\* 91); calc_geometry_statistics assigns into none.  Each is an object the
\* call created itself; no statement assigns into a configuration table or
\* to a module-level name.
WrittenInPlace(fn) ==
    CASE fn = "calc_bond_specific_cn_smooth" -> {"den", "sw", "result"}
      [] fn = "calc_gcn_descriptors" -> {"gcn_weights", "pt_weights", "sn_weights"}
      [] fn \in {"calc_q6_fast", "calc_q4_fast"} -> {"vectors", "distances", "qlm"}
      [] fn = "calc_cluster_analysis" ->
            {"q6_values", "result", "vectors", "distances", "qlm"}
      [] OTHER -> {}

\* The value stored under a name after an item assignment of zeros (False
\* for a switch, the empty string for an element).
Overwritten(a, v) ==
    CASE a \in {"enable", "include_oxygen_in_local"} -> FALSE
      [] a = "elements" -> [i \in 1..Len(v) |-> ""]
      [] OTHER -> [i \in 1..Len(v) |-> <<0, 0, 0>>]

\* The shared memory after a call: only what the call assigns into changes.
MemoryAfterCall(fn, mem) ==
    [a \in DOMAIN mem |-> IF a \in WrittenInPlace(fn) THEN Overwritten(a, mem[a]) ELSE mem[a]]

\* A worker takes a query no worker has taken.
WorkerCall(w, q) ==
    /\ op[w] = Idle
    /\ q \notin DOMAIN ret
    /\ \A v \in Workers : op[v] # q
    /\ op' = [op EXCEPT ![w] = q]
    /\ UNCHANGED <<arg, ret>>

\* The call of a worker runs on the memory as it is and returns.
WorkerReturn(w) ==
    /\ op[w] # Idle
    /\ \E q \in {op[w]} : \E result \in {QueryResult(q, arg.memory)} :
          /\ ret' = [r \in DOMAIN ret \cup {q} |-> IF r = q THEN result ELSE ret[r]]
          /\ arg' = [arg EXCEPT !.memory = MemoryAfterCall(q.fn, arg.memory)]
    /\ op' = [op EXCEPT ![w] = Idle]

\* The configuration and one frame are loaded; no query has run.
InitWorkers ==
    /\ op = [w \in Workers |-> Idle]
    /\ \E frame_idx \in 1..Len(Trajectory), switches \in DriverSwitches :
          \E loaded \in {[frame_idx |-> frame_idx, switches |-> switches]} :
              arg = [loaded |-> loaded, memory |-> LoadedMemory(loaded)]
    /\ ret = <<>>

NextWorkers ==
    \E w \in Workers : (\E q \in Queries : WorkerCall(w, q)) \/ WorkerReturn(w)

\* Inputs of the classifier: order parameters on a grid of hundredths.
MaxQ6 == 70

MaxQ4 == 25

ClassifyStructure ==
    /\ op = "none"
    /\ \E a \in 0..MaxQ4, b \in 0..MaxQ6 :
          /\ op' = "classify_structure_advanced"
          /\ arg' = [q4 |-> F(a, -2), q6 |-> F(b, -2)]
          /\ ret' = classify_structure_advanced(F(a, -2), F(b, -2))

\* Valid switching parameter tuples (R0 > 0, NN > 0, MM > 0, D0, Dmax > 0):
\* the three configured ones and tuples over other values.
SwitchParams ==
    {COORDINATION.plumed.pt_pt, COORDINATION.plumed.pt_sn, COORDINATION.plumed.sn_sn}
    \cup [R0 : {F(1, 0), F(29, -1)}, NN : {1, 6}, MM : {2, 12},
          D0 : {FZero, F(1, -1), F(2, 0)}, Dmax : {F(1, 0), F(100, -1)}]

\* Distances handed to the switching function: a grid of tenths up to MaxR,
\* each parameter tuple's own D0, and the float next below 1.
MaxR == 105

SwitchDistances == {F(k, -1) : k \in 0..MaxR} \cup {F(999999999, -9)}

PlumedSwitch ==
    /\ op = "none"
    /\ \E p \in SwitchParams, r \in SwitchDistances :
          /\ op' = "plumed_switch"
          /\ arg' = [distances |-> r, params |-> p]
          /\ ret' = plumed_switch(r, p)

\* The call returns: the engine keeps nothing of it.
Return ==
    /\ op # "none"
    /\ op' = "none"
    /\ arg' = <<>>
    /\ ret' = <<>>

Init ==
    /\ op = "none"
    /\ arg = <<>>
    /\ ret = <<>>

SpecClassifier == Init /\ [][ClassifyStructure \/ Return]_vars

SpecSwitch == Init /\ [][PlumedSwitch \/ Return]_vars

SpecCoordination ==
    Init /\ [][PlumedSwitch \/ CalcBondSpecificCnSmooth \/ CalcGcnDescriptors \/ Return]_vars

SpecOrder == Init /\ [][CalcQLocal \/ CalcClusterAnalysis \/ Return]_vars

SpecWorkers == InitWorkers /\ [][NextWorkers]_vars

SpecGeometry == Init /\ [][CalcGeometryStatistics \/ Return]_vars

SpecGcn == Init /\ [][CalcGcnDescriptorsUnder \/ Return]_vars

SpecReader == Init /\ [][ReadXyzOpen \/ ReadXyzIteration \/ ReadXyzReturn]_vars

SpecSeries == Init /\ [][AnalyzeOpen \/ AnalyzeFrame \/ AnalyzeReturn]_vars

SpecHarmonic == Init /\ [][CalcSphericalHarmonic \/ CalcQLocalOctahedron \/ Return]_vars

SpecAnyOrder == Init /\ [][CalcQLocalAnyOrder \/ CalcGcnDescriptorsAnyOrder \/ Return]_vars

SpecDriver == Init /\ [][AnalyzeAtom \/ CalcBondSpecificCnSmooth \/ Return]_vars

(***************************************************************************)
(* Properties of classify_structure_advanced                               *)
(***************************************************************************)
\* The number of hundredths a grid value stands for.
Hundredths(x) == CHOOSE k \in 0..100 : F(k, -2) = x

\* The decision tree of the specification, on integers of hundredths.
DecisionTree(q4h, q6h) ==
    IF q6h > 60 THEN (IF q4h > 15 THEN "FCC-like" ELSE "ICO-like")
    ELSE IF q6h > 50 THEN (IF q4h > 15 THEN "FCC-like"
                           ELSE IF q4h > 8 THEN "HCP-like" ELSE "BCC-like")
    ELSE IF q6h > 35 THEN "Partially-Ordered"
    ELSE IF q6h > 25 THEN "Liquid-like"
    ELSE "Disordered"

\* C1: classify_structure_advanced(q4, q6) equals the fixed decision tree for
\* every input pair, with every comparison strict, so that a value exactly on
\* a threshold falls in the lower branch; (0.2, 0.65) is FCC-like,
\* (0.05, 0.55) is BCC-like and (0.1, 0.20) is Disordered.
C1_DecisionTree ==
    op = "classify_structure_advanced" =>
        /\ ret = DecisionTree(Hundredths(arg.q4), Hundredths(arg.q6))
        /\ (arg = [q4 |-> F(20, -2), q6 |-> F(65, -2)] => ret = "FCC-like")
        /\ (arg = [q4 |-> F(5, -2), q6 |-> F(55, -2)] => ret = "BCC-like")
        /\ (arg = [q4 |-> F(10, -2), q6 |-> F(20, -2)] => ret = "Disordered")

\* C1 witness: both arguments exactly on a threshold (q6 = 0.60, q4 = 0.15)
\* fall in the lower branches.
C1_OnThresholds ==
    /\ op = "classify_structure_advanced"
    /\ arg.q6 = F(60, -2)
    /\ arg.q4 = F(15, -2)
    /\ ret = "HCP-like"

(***************************************************************************)
(* Properties of calc_q_local and calc_cluster_analysis                    *)
(***************************************************************************)
\* The squared distance of two lattice points, in hundredths of A^2.
SqDist(a, b) ==
    (a[1] - b[1]) * (a[1] - b[1]) + (a[2] - b[2]) * (a[2] - b[2])
        + (a[3] - b[3]) * (a[3] - b[3])

\* The atoms a call may take neighbours from.
Candidates(elements, metal_only) ==
    {i \in 1..Len(elements) : metal_only => elements[i] \in {"Pt", "Sn"}}

\* The candidates at a distance strictly inside (0.1 A, 3.5 A) of the centre,
\* counted on exact integers: 1 < d^2 < 35^2 in tenths of an Angstrom.
StrictNeighbours(central_pos, positions, elements, metal_only) ==
    {i \in Candidates(elements, metal_only) :
        /\ SqDist(positions[i], central_pos) > 1
        /\ SqDist(positions[i], central_pos) < 35 * 35}

\* C2: calc_q_local returns the sentinel 0.0 whenever fewer than 4 of the
\* selected candidates lie at a distance strictly inside (0.1, cutoff); a
\* candidate at exactly 0.1 or exactly cutoff, and the centre itself, never
\* count towards the 4.
C2_FewNeighboursGiveZero ==
    (op = "calc_q_local" /\ arg.cutoff = F(35, -1)) =>
        (Cardinality(StrictNeighbours(arg.central_pos, arg.positions, arg.elements,
                                      arg.metal_only)) < MinNeighbors
            => ret = FZero)

\* C2 witness: three candidates strictly inside the window, and with them
\* the centre itself, a candidate at exactly 0.1 A and one at exactly 3.5 A.
C2_BoundaryCandidates ==
    /\ op = "calc_q_local"
    /\ Cardinality(StrictNeighbours(arg.central_pos, arg.positions, arg.elements,
                                    arg.metal_only)) = 3
    /\ \E i, j, k \in Candidates(arg.elements, arg.metal_only) :
          /\ SqDist(arg.positions[i], arg.central_pos) = 0
          /\ SqDist(arg.positions[j], arg.central_pos) = 1
          /\ SqDist(arg.positions[k], arg.central_pos) = 35 * 35
    /\ ret = FZero

\* The members of a group of calc_cluster_analysis.
GroupMembers(elements, g) ==
    {i \in 1..Len(elements) :
        CASE g = "cluster" -> TRUE
          [] g = "metal"   -> elements[i] \in {"Pt", "Sn"}
          [] OTHER         -> elements[i] = g}

\* The mean of the local Q6 over the members with at least 4 valid
\* neighbours, 0.0 when there is none.
MeanOfRemainder(a, g) ==
    LET Kept(i) ==
            /\ i \in GroupMembers(a.elements, g)
            /\ Cardinality(StrictNeighbours(a.positions[i], a.positions, a.elements,
                                            ~a.include_oxygen_in_local)) >= MinNeighbors
        idx == SelectSeq([i \in 1..Len(a.elements) |-> i], Kept)
    IN  IF Len(idx) = 0 THEN FZero
        ELSE FMean([k \in 1..Len(idx) |->
                       calc_q6_fast(a.positions[idx[k]], a.positions, a.elements,
                                    a.cutoff, a.include_oxygen_in_local)])

\* C3: for every group (cluster, metal, Pt, Sn), q6_global is the mean over
\* only the members whose local Q6 is not the degenerate sentinel (fewer than
\* 4 valid neighbours): degenerate members are discarded before averaging.
C3_DegenerateMembersDiscarded ==
    op = "calc_cluster_analysis" =>
        \A g \in {"cluster", "metal", "Pt", "Sn"} :
            DOMAIN ret[g] # {} => ret[g].q6_global = MeanOfRemainder(arg, g)

\* No atom of the frame is a metal atom.
NoMetal(elements) == \A i \in 1..Len(elements) : elements[i] \notin {"Pt", "Sn"}

Without(positions, central_pos) ==
    LET Other(q) == q # central_pos IN SelectSeq(positions, Other)

\* C5: for a centre of either role whose own position is in its role's
\* list, the four GCN scalars are the same as when that position is removed
\* from the list: the zero self-distance is excluded for Pt and for Sn.
C5_SelfDistanceExcluded ==
    op = "calc_gcn_descriptors" =>
        ret = calc_gcn_descriptors(arg.enable, arg.central_pos,
                                   Without(arg.pt_positions, arg.central_pos),
                                   Without(arg.sn_positions, arg.central_pos))

(***************************************************************************)
(* Properties of plumed_switch                                             *)
(***************************************************************************)
\* C6 as stated: plumed_switch at r = D0 returns exactly 1 for any valid
\* parameter tuple.
C6_SwitchAtD0IsOne ==
    op = "plumed_switch" =>
        (arg.distances = arg.params.D0 => ret = FOne)

\* C6 amended: plumed_switch at r = D0 returns exactly 1 for any valid
\* parameter tuple with D0 <= Dmax, and 0 when D0 > Dmax.
C6_SwitchAtD0 ==
    op = "plumed_switch" =>
        (arg.distances = arg.params.D0 =>
            ret = IF FGt(arg.params.D0, arg.params.Dmax) THEN FZero ELSE FOne)

\* C6 witness: the configured Pt-Pt tuple at r = D0 = 0.1.
C6_ConfiguredAtD0 ==
    /\ op = "plumed_switch"
    /\ arg.params = COORDINATION.plumed.pt_pt
    /\ arg.distances = arg.params.D0
    /\ ret = FOne

\* The quotient num / den before the clamps of lines 36-37.
RawQuotient(r, p) == FDiv(SwitchNum(r, p), SwitchDen(r, p))

\* C7: plumed_switch returns 0 when r > Dmax and 0 when the raw quotient is
\* negative; every returned weight is >= 0, and every smooth coordination
\* sum (cn_center_center, cn_center_other, cn_total) is >= 0.
C7_WeightsNonNegative ==
    /\ op = "plumed_switch" =>
          /\ (FGt(arg.distances, arg.params.Dmax) => ret = FZero)
          /\ (FLt(RawQuotient(arg.distances, arg.params), FZero) => ret = FZero)
          /\ FGe(ret, FZero)
    /\ op = "calc_bond_specific_cn_smooth" =>
          /\ FGe(ret.cn_center_center, FZero)
          /\ FGe(ret.cn_center_other, FZero)
          /\ FGe(ret.cn_total, FZero)

\* C7 witness: a distance within Dmax whose raw quotient is negative.
C7_NegativeQuotientClamped ==
    /\ op = "plumed_switch"
    /\ FLe(arg.distances, arg.params.Dmax)
    /\ FLt(RawQuotient(arg.distances, arg.params), FZero)
    /\ ret = FZero

C9_TotalIsSum ==
    op = "calc_bond_specific_cn_smooth" =>
        ret.cn_total = FAdd(ret.cn_center_center, ret.cn_center_other)

\* C9 witness: a metal centre with a nonzero sum for both roles.
C9_BothRolesCounted ==
    /\ op = "calc_bond_specific_cn_smooth"
    /\ arg.central_element \in {"Pt", "Sn"}
    /\ FGt(ret.cn_center_center, FZero)
    /\ FGt(ret.cn_center_other, FZero)

\* The distances a role's list contributes, the centre's own role filtered
\* by > 0.1.
RoleDistances(central_pos, positions, same_role) ==
    LET all == Distances(positions, central_pos)
        NotSelf(d) == FGt(d, F(1, -1))
    IN  IF same_role THEN SelectSeq(all, NotSelf) ELSE all

\* The mean of the distances below 1.5 * rcut, 0.0 when there is none.
AvgWithin(dists, rcut) ==
    LET Within(d) == FLt(d, FMul(rcut, F(15, -1)))
        valid == SelectSeq(dists, Within)
    IN  IF Len(valid) > 0 THEN FMean(valid) ELSE FZero

\* C10: with both neighbour lists empty cn_total and both average distances
\* are 0.0; with only one role's list empty the coordination sum and the
\* average distance of the absent role are 0.0 and the other role's sum and
\* average distance are computed normally.
C10_SparseInput ==
    op = "calc_bond_specific_cn_smooth" =>
        LET metal == arg.central_element \in {"Pt", "Sn"}
            own   == IF arg.central_element = "Pt" THEN arg.pt_positions
                     ELSE arg.sn_positions
            other == IF arg.central_element = "Pt" THEN arg.sn_positions
                     ELSE arg.pt_positions
            same  == IF arg.central_element = "Pt" THEN "pt_pt" ELSE "sn_sn"
            rcut  == IF arg.central_element = "Pt" THEN COORDINATION.rcut_pt_pt
                     ELSE COORDINATION.rcut_sn_sn
        IN  /\ (Len(arg.pt_positions) = 0 /\ Len(arg.sn_positions) = 0) =>
                  /\ ret.cn_total = FZero
                  /\ ret.avg_dist_center_center = FZero
                  /\ ret.avg_dist_center_other = FZero
            /\ (metal /\ Len(own) = 0) =>
                  /\ ret.cn_center_center = FZero
                  /\ ret.avg_dist_center_center = FZero
                  /\ ret.cn_center_other =
                        calc_cn_smooth(RoleDistances(arg.central_pos, other, FALSE), "pt_sn")
                  /\ ret.avg_dist_center_other =
                        AvgWithin(RoleDistances(arg.central_pos, other, FALSE),
                                  COORDINATION.rcut_pt_sn)
                  /\ ret.cn_total = ret.cn_center_other
            /\ (metal /\ Len(other) = 0) =>
                  /\ ret.cn_center_other = FZero
                  /\ ret.avg_dist_center_other = FZero
                  /\ ret.cn_center_center =
                        calc_cn_smooth(RoleDistances(arg.central_pos, own, TRUE), same)
                  /\ ret.avg_dist_center_center =
                        AvgWithin(RoleDistances(arg.central_pos, own, TRUE), rcut)
                  /\ ret.cn_total = ret.cn_center_center

\* C10 witness: a Pt centre with no Pt list and Sn neighbours in range.
C10_OnlyOtherRole ==
    /\ op = "calc_bond_specific_cn_smooth"
    /\ arg.central_element = "Pt"
    /\ Len(arg.pt_positions) = 0
    /\ Len(arg.sn_positions) > 0
    /\ ret.cn_center_center = FZero
    /\ ret.avg_dist_center_center = FZero
    /\ FGt(ret.cn_center_other, FZero)
    /\ FGt(ret.avg_dist_center_other, FZero)

(***************************************************************************)
(* Properties of the per-atom loop of analyze_trajectory                   *)
(***************************************************************************)
\* The five numeric fields of a smooth-coordination result are 0.0.
AllFieldsZero(r) ==
    /\ r.cn_center_center = FZero
    /\ r.cn_center_other = FZero
    /\ r.cn_total = FZero
    /\ r.avg_dist_center_center = FZero
    /\ r.avg_dist_center_other = FZero

\* C11: calc_bond_specific_cn_smooth called with a central element that is
\* neither Pt nor Sn returns all five numeric fields 0.0, and the per-atom
\* loop of the driver passes only Pt and Sn atoms as centres and only the
\* positions of Pt and Sn atoms as partners: an atom of a third species is
\* neither.
C11_OnlyMetalRoles ==
    /\ op = "calc_bond_specific_cn_smooth" =>
          (arg.central_element \notin {"Pt", "Sn"} => AllFieldsZero(ret))
    /\ op = "analyze_trajectory" =>
          LET call == ret.bond_cn_call
          IN  /\ call.central_element \in {"Pt", "Sn"}
              /\ arg.elements[arg.target_idx] = call.central_element
              /\ call.central_pos = arg.positions[arg.target_idx]
              /\ \A i \in 1..Len(arg.elements) :
                    arg.elements[i] \notin {"Pt", "Sn"} =>
                        arg.positions[i] \notin
                            Range(call.pt_positions) \cup Range(call.sn_positions)
              /\ \A q \in Range(call.pt_positions) :
                    \E i \in 1..Len(arg.elements) :
                        arg.positions[i] = q /\ arg.elements[i] = "Pt"
              /\ \A q \in Range(call.sn_positions) :
                    \E i \in 1..Len(arg.elements) :
                        arg.positions[i] = q /\ arg.elements[i] = "Sn"

\* C11 witness: an oxygen centre with Pt and Sn atoms around it, one of
\* them 2.8 A away, gets five zeros.
C11_OxygenCentre ==
    /\ op = "calc_bond_specific_cn_smooth"
    /\ arg.central_element = "O"
    /\ arg.central_pos = <<0, 0, 0>>
    /\ <<28, 0, 0>> \in Range(arg.pt_positions)
    /\ Len(arg.sn_positions) > 0
    /\ AllFieldsZero(ret)

(***************************************************************************)
(* Properties of the order of the neighbour lists                          *)
(***************************************************************************)
\* Lexicographic order of lattice points.
LexLess(a, b) ==
    \/ a[1] < b[1]
    \/ a[1] = b[1] /\ a[2] < b[2]
    \/ a[1] = b[1] /\ a[2] = b[2] /\ a[3] < b[3]

\* The indices of a position list, sorted by position.
SortedIndices(positions) ==
    LET Before(i, j) == LexLess(positions[i], positions[j])
    IN  SortSeq([i \in 1..Len(positions) |-> i], Before)

\* A position list in sorted order: one fixed order of its multiset.
Sorted(positions) == SortSeq(positions, LexLess)

\* The result of the call of the state on the same neighbours in sorted
\* order.
SortedQLocal ==
    calc_q_local(arg.central_pos,
                 Permuted(arg.positions, SortedIndices(arg.positions)),
                 Permuted(arg.elements, SortedIndices(arg.positions)),
                 arg.cutoff, arg.l, arg.metal_only)

SortedGcn ==
    calc_gcn_descriptors(arg.enable, arg.central_pos,
                         Sorted(arg.pt_positions), Sorted(arg.sn_positions))

\* |x - y| <= 1e-6
Close(x, y) == FLe(FAbs(FSub(x, y)), F(1, -6))

\* C12 as stated: permuting the neighbour positions passed to calc_q_local
\* and to calc_gcn_descriptors leaves every returned scalar unchanged; the
\* result is that of the same multiset of neighbours in any other order.
C12_OrderIndependent ==
    /\ op = "calc_q_local" => \E sorted \in {SortedQLocal} : ret = sorted
    /\ op = "calc_gcn_descriptors" => \E sorted \in {SortedGcn} : ret = sorted

\* C12 amended: permuting the neighbour positions changes the accumulated
\* scalars (the order parameter, gcn_loc, w_gcn_loc) by no more than the
\* rounding of the floating-point sums, here below 1e-6, and leaves the
\* counted scalars sn_w_gcn_loc and shell_gcn_loc unchanged.
C12_OrderIndependentToRounding ==
    /\ op = "calc_q_local" => \E sorted \in {SortedQLocal} : Close(ret, sorted)
    /\ op = "calc_gcn_descriptors" =>
          \E sorted \in {SortedGcn} :
              /\ Close(ret.gcn_loc, sorted.gcn_loc)
              /\ Close(ret.w_gcn_loc, sorted.w_gcn_loc)
              /\ ret.sn_w_gcn_loc = sorted.sn_w_gcn_loc
              /\ ret.shell_gcn_loc = sorted.shell_gcn_loc

\* C12 witness: a GCN call on unsorted neighbour lists whose accumulated
\* scalars differ from those of the sorted lists, by less than 1e-6, while
\* the counted scalars agree.
C12_RoundingDiffers ==
    /\ op = "calc_gcn_descriptors"
    /\ arg.enable
    /\ \E sorted \in {SortedGcn} :
          /\ ret # sorted
          /\ Close(ret.gcn_loc, sorted.gcn_loc)
          /\ Close(ret.w_gcn_loc, sorted.w_gcn_loc)
          /\ ret.sn_w_gcn_loc = sorted.sn_w_gcn_loc
          /\ ret.shell_gcn_loc = sorted.shell_gcn_loc

(***************************************************************************)
(* Properties of calc_geometry_statistics                                  *)
(***************************************************************************)
\* C13: calc_geometry_statistics returns its three fields on every frame;
\* a role's mean radial distance is 0.0 whenever that role is absent from
\* the frame, all three fields are 0.0 for an empty frame, and a single atom
\* at the origin has gyration_radius 0.0 and both per-role fields 0.0.
C13_AbsentRoleIsZero ==
    op = "calc_geometry_statistics" =>
        /\ DOMAIN ret = {"sn_avg_dist_to_center", "pt_avg_dist_to_center",
                         "gyration_radius"}
        /\ "Sn" \notin Range(arg.elements) => ret.sn_avg_dist_to_center = FZero
        /\ "Pt" \notin Range(arg.elements) => ret.pt_avg_dist_to_center = FZero
        /\ Len(arg.positions) = 0 =>
              /\ ret.sn_avg_dist_to_center = FZero
              /\ ret.pt_avg_dist_to_center = FZero
              /\ ret.gyration_radius = FZero
        /\ arg.positions = << <<0, 0, 0>> >> =>
              /\ ret.gyration_radius = FZero
              /\ ret.sn_avg_dist_to_center = FZero
              /\ ret.pt_avg_dist_to_center = FZero

\* C13 witness: a frame of Pt and O atoms without Sn: the Pt field and the
\* gyration radius are positive and the Sn field is 0.0.
C13_NoSnAmongOthers ==
    /\ op = "calc_geometry_statistics"
    /\ "Sn" \notin Range(arg.elements)
    /\ "O" \in Range(arg.elements)
    /\ FGt(ret.pt_avg_dist_to_center, FZero)
    /\ FGt(ret.gyration_radius, FZero)
    /\ ret.sn_avg_dist_to_center = FZero

(***************************************************************************)
(* C14: the entry points write neither the configuration nor their input   *)
(* arrays and keep no state, so the queries of concurrent workers, in any  *)
(* interleaving, return what strictly sequential evaluation returns.       *)
(***************************************************************************)
\* What every query returns when the queries are evaluated one after the
\* other on what was loaded.
SequentialResults ==
    [loaded \in {[frame_idx |-> f, switches |-> sw]
                 : f \in 1..Len(Trajectory), sw \in DriverSwitches}
        |-> [q \in Queries |-> QueryResult(q, LoadedMemory(loaded))]]

\* C14: at every point of every interleaving of the workers, the shared
\* memory (the switches of the configuration, the position and element
\* arrays of the frame) is as it was loaded, and every finished query has
\* the result strictly sequential evaluation gives it.
C14_InterleavingSameAsSequential ==
    /\ arg.memory = LoadedMemory(arg.loaded)
    /\ \A q \in DOMAIN ret : ret[q] = SequentialResults[arg.loaded][q]

\* Both workers are inside different calls while other queries have already
\* returned, one of them a per-frame query with a non-zero order parameter.
C14_TwoCallsInFlight ==
    /\ op[1] # Idle
    /\ op[2] # Idle
    /\ op[1].fn = "calc_gcn_descriptors"
    /\ op[2].fn = "calc_q6_fast"
    /\ [fn |-> "calc_cluster_analysis", idx |-> 0] \in DOMAIN ret
    /\ [fn |-> "calc_bond_specific_cn_smooth", idx |-> 1] \in DOMAIN ret
    /\ ret[[fn |-> "calc_cluster_analysis", idx |-> 0]].cluster.q6_global.m > 0

(***************************************************************************)
(* C15: spherical_harmonic is the normalised Y_l^m for negative m too.     *)
(***************************************************************************)
\* C15 as stated: for negative m the value is (-1)^m times the conjugate of
\* the value for -m (to 1e-6 in both parts), and so has the same modulus.
C15_NegativeMIsConjugate ==
    (op = "spherical_harmonic" /\ arg.m < 0) =>
        \E pos \in {spherical_harmonic(arg.l, -arg.m, arg.theta, arg.phi)} :
            /\ Close(ret.re, FMul(F(MinusOnePow(arg.m), 0), pos.re))
            /\ Close(ret.im, FNeg(FMul(F(MinusOnePow(arg.m), 0), pos.im)))
            /\ Close(CAbs(ret), CAbs(pos))

(***************************************************************************)
(* C16: calc_q_local on the octahedron.                                    *)
(***************************************************************************)
\* x is within 1e-2 of y.
Within1e2(x, y) == FLe(FAbs(FSub(x, y)), F(1, -2))

\* C16 as stated: on the six octahedral neighbour vectors inside the cutoff
\* calc_q_local returns Q6 within 1e-2 of 0.745 and Q4 within 1e-2 of 0.763.
C16_OctahedronReference ==
    (op = "calc_q_local" /\ arg.positions \in {Octahedron(s) : s \in OctahedronScales}) =>
        /\ arg.l = 6 => Within1e2(ret, F(745, -3))
        /\ arg.l = 4 => Within1e2(ret, F(763, -3))

(***************************************************************************)
(* C17: the count and the q6_global of the groups of calc_cluster_analysis *)
(***************************************************************************)
\* The atoms of the analysed frame with an element of the set.
MembersOf(species) == {i \in 1..Len(arg.elements) : arg.elements[i] \in species}

\* Atom i of the analysed frame is degenerate: fewer than four neighbour
\* candidates lie inside the window around it.
DegenerateMember(i) ==
    Len(QVectors(arg.positions[i],
                 _select_neighbors(arg.positions, arg.elements,
                                   ~arg.include_oxygen_in_local),
                 arg.cutoff)) < MinNeighbors

\* The entry of a group over the members has the raw member count, and
\* q6_global 0.0 when there is no member or every member is degenerate.
RawCountEntry(entry, members) ==
    /\ entry.count = Cardinality(members)
    /\ (\A i \in members : DegenerateMember(i)) => entry.q6_global = FZero

\* C17: every group calc_cluster_analysis returns carries the raw number of
\* atoms of its subset and q6_global 0.0 when the subset is empty or wholly
\* degenerate; the cluster count is the number of atoms of the frame; a
\* reported metal group counts the Pt and the Sn members together.
C17_RawCounts ==
    op = "calc_cluster_analysis" =>
        /\ RawCountEntry(ret.cluster, MembersOf({"Pt", "Sn", "O"}))
        /\ ret.cluster.count = Len(arg.positions)
        /\ RawCountEntry(ret.Pt, MembersOf({"Pt"}))
        /\ RawCountEntry(ret.Sn, MembersOf({"Sn"}))
        /\ ret.metal # EmptyDict =>
              /\ RawCountEntry(ret.metal, MembersOf({"Pt", "Sn"}))
              /\ ret.metal.count = ret.Pt.count + ret.Sn.count

\* A frame whose Sn members are all degenerate while a Pt member is not:
\* the Sn group has its raw count and q6_global 0.0, the metal group counts
\* both roles, and the cluster also counts the bystander.
C17_DegenerateSnGroup ==
    /\ op = "calc_cluster_analysis"
    /\ ret.Sn.count >= 2
    /\ ret.Sn.q6_global = FZero
    /\ ret.Pt.q6_global.m > 0
    /\ ret.metal # EmptyDict
    /\ ret.metal.count = ret.Pt.count + ret.Sn.count
    /\ ret.cluster.count > ret.metal.count

(***************************************************************************)
(* C18: the neighbour candidates of the members of a group                 *)
(***************************************************************************)
\* The Q6 of every atom of the analysed frame, each against the candidates
\* that the metal_only switch admits among the atoms of the whole frame.
FrameQ6(metal_only) ==
    [i \in 1..Len(arg.positions) |->
        calc_q_local(arg.positions[i], arg.positions, arg.elements, arg.cutoff,
                     Q6_Q4.l_q6, metal_only)] \o <<>>

\* The mean of the per-atom values of the members, in the order of the
\* frame; 0.0 when there is no member.
MeanOverMembers(values, members) ==
    LET Member(i) == i \in members
        chosen == SelectSeq([i \in 1..Len(values) |-> i], Member)
    IN  IF Len(chosen) = 0 THEN FZero
        ELSE FMean([k \in 1..Len(chosen) |-> values[chosen[k]]])

\* Every reported group averages the one list of per-atom values.
GroupsAverage(values) ==
    /\ ret.cluster.q6_global = MeanOverMembers(values, MembersOf({"Pt", "Sn", "O"}))
    /\ ret.Pt.q6_global = MeanOverMembers(values, MembersOf({"Pt"}))
    /\ ret.Sn.q6_global = MeanOverMembers(values, MembersOf({"Sn"}))
    /\ ret.metal # EmptyDict =>
          ret.metal.q6_global = MeanOverMembers(values, MembersOf({"Pt", "Sn"}))

\* C18 as stated: in calc_cluster_analysis the Q6 of every member of every
\* group is computed with all atoms of the frame, of every species, as the
\* neighbour candidates.
C18_EverySpeciesIsCandidate ==
    op = "calc_cluster_analysis" =>
        \E values \in {FrameQ6(FALSE)} : GroupsAverage(values)

\* C18: in calc_cluster_analysis the Q6 of every member of every group is
\* computed against the atoms of the whole frame and not against the group:
\* the candidates are all the atoms of the frame that the neighbour
\* selection of the configuration admits (the Pt and Sn atoms unless
\* include_oxygen_in_local is set, every species when it is), at the one
\* cutoff, so an atom has the same Q6 in every group it belongs to.
C18_FrameWideCandidates ==
    op = "calc_cluster_analysis" =>
        \E values \in {FrameQ6(~arg.include_oxygen_in_local)} : GroupsAverage(values)

\* Under the metals-only selection a frame with a bystander whose Pt group
\* has at most four members and a positive Q6: no Pt member has four
\* neighbours inside its own group, so the neighbours come from the frame.
C18_NeighboursOutsideGroup ==
    /\ op = "calc_cluster_analysis"
    /\ ~arg.include_oxygen_in_local
    /\ MembersOf({"O"}) # {}
    /\ ret.Pt.count \in 1..4
    /\ ret.Pt.q6_global.m > 0
    /\ ret.Sn.count > 0

(***************************************************************************)
(* C19, C20: the sums and the mean distances of                            *)
(* calc_bond_specific_cn_smooth                                            *)
(***************************************************************************)
\* The list of the centre's own role and the list of the other role.
OwnPositions == IF arg.central_element = "Pt" THEN arg.pt_positions ELSE arg.sn_positions

OtherPositions == IF arg.central_element = "Pt" THEN arg.sn_positions ELSE arg.pt_positions

\* The distances from the centre to the same-role neighbours, those above
\* 0.1, and to all the cross-role neighbours.
SameRoleDistances ==
    LET Beyond(d) == FGt(d, F(1, -1))
    IN  SelectSeq(Distances(OwnPositions, arg.central_pos), Beyond)

CrossRoleDistances == Distances(OtherPositions, arg.central_pos) \o <<>>

\* The sum of the switching function with one parameter set over distances.
SwitchingSum(dists, params) ==
    FSum([i \in 1..Len(dists) |-> plumed_switch(dists[i], params)])

\* C19: for a Pt and for an Sn centre cn_center_center is the switching
\* sum with the centre's own same-role parameters (pt_pt, sn_sn) over the
\* same-role neighbours at distance > 0.1, and cn_center_other the sum with
\* the pt_sn parameters over every cross-role neighbour, whatever its
\* distance.
C19_RoleSums ==
    (op = "calc_bond_specific_cn_smooth" /\ arg.central_element \in {"Pt", "Sn"}) =>
        /\ ret.cn_center_center =
              SwitchingSum(SameRoleDistances,
                           IF arg.central_element = "Pt" THEN COORDINATION.plumed.pt_pt
                           ELSE COORDINATION.plumed.sn_sn)
        /\ ret.cn_center_other = SwitchingSum(CrossRoleDistances, COORDINATION.plumed.pt_sn)

\* An Sn centre listed among the Sn positions with a Pt atom no further
\* than 0.1 from it: the own position is left out of the same-role sum and
\* the close Pt atom is counted in the cross-role sum.
C19_CloseCrossRoleCounted ==
    /\ op = "calc_bond_specific_cn_smooth"
    /\ arg.central_element = "Sn"
    /\ Len(SameRoleDistances) \in 1..(Len(OwnPositions) - 1)
    /\ \E i \in 1..Len(CrossRoleDistances) : FLe(CrossRoleDistances[i], F(1, -1))
    /\ FGt(ret.cn_center_center, FZero)
    /\ LET Beyond(d) == FGt(d, F(1, -1))
       IN  ret.cn_center_other #
              SwitchingSum(SelectSeq(CrossRoleDistances, Beyond), COORDINATION.plumed.pt_sn)

\* The arithmetic mean of the distances strictly below 1.5 * rcut, 0.0 when
\* there is none.
MeanBelow(dists, rcut) ==
    LET Near(d) == FLt(d, FMul(F(15, -1), rcut))
        near == SelectSeq(dists, Near)
    IN  IF Len(near) = 0 THEN FZero ELSE FDiv(FSum(near), F(Len(near), 0))

\* C20: avg_dist_center_center and avg_dist_center_other are the mean of
\* the distances of the same-role neighbours (those above 0.1) and of the
\* cross-role neighbours that lie below 1.5 times the hard cutoff of the
\* pair (rcut_pt_pt or rcut_sn_sn, rcut_pt_sn), 0.0 when none does; only
\* the distances and the cutoff enter, no switching parameter.
C20_MeanDistances ==
    (op = "calc_bond_specific_cn_smooth" /\ arg.central_element \in {"Pt", "Sn"}) =>
        /\ ret.avg_dist_center_center =
              MeanBelow(SameRoleDistances,
                        IF arg.central_element = "Pt" THEN COORDINATION.rcut_pt_pt
                        ELSE COORDINATION.rcut_sn_sn)
        /\ ret.avg_dist_center_other = MeanBelow(CrossRoleDistances, COORDINATION.rcut_pt_sn)

\* A Pt centre listed among the Pt positions with a cross-role neighbour
\* between rcut_pt_sn and 1.5 times it: that neighbour enters the cross-role
\* mean, and the same-role mean is taken without the own position.
C20_BetweenCutoffAndItsMultiple ==
    /\ op = "calc_bond_specific_cn_smooth"
    /\ arg.central_element = "Pt"
    /\ \E i \in 1..Len(CrossRoleDistances) :
          /\ FGt(CrossRoleDistances[i], COORDINATION.rcut_pt_sn)
          /\ FLt(CrossRoleDistances[i], FMul(F(15, -1), COORDINATION.rcut_pt_sn))
    /\ FGt(ret.avg_dist_center_other, COORDINATION.rcut_pt_sn)
    /\ Len(SameRoleDistances) \in 1..(Len(OwnPositions) - 1)
    /\ FGt(ret.avg_dist_center_center, FZero)

(***************************************************************************)
(* C21: the neighbour candidates of calc_q6_fast and calc_q4_fast          *)
(***************************************************************************)
\* The atoms of the analysed frame the inclusion flag admits as neighbour
\* candidates: every atom when it is set, the Pt and Sn atoms when not.
CandidateAtoms ==
    {i \in 1..Len(arg.elements) :
        arg.include_oxygen_in_local \/ arg.elements[i] \in {"Pt", "Sn"}}

\* The vectors from the target atom to the atoms of a set that lie in the
\* window (0.1, q6_cutoff), in the order of the frame.
VectorsToAtoms(atoms) ==
    LET centre == arg.positions[arg.target_idx]
        Near(i) == /\ i \in atoms
                   /\ \E dist \in {vector_norm(vector_sub(arg.positions[i], centre))} :
                          FLt(F(1, -1), dist) /\ FLt(dist, Q6_Q4.q6_cutoff)
        chosen == SelectSeq([i \in 1..Len(arg.positions) |-> i], Near)
    IN  [k \in 1..Len(chosen) |-> vector_sub(arg.positions[chosen[k]], centre)]

\* C21: with include_oxygen_in_local false the Q6 and the Q4 of an atom
\* take only Pt and Sn atoms as neighbour candidates, so that an atom of
\* another species neither counts towards the threshold of four neighbours
\* nor enters the harmonic average; with the flag true every atom of the
\* frame is a candidate; Q6 and Q4 of one atom use the same neighbours.
C21_CandidatesFollowFlag ==
    op = "analyze_trajectory" =>
        \E vectors \in {VectorsToAtoms(CandidateAtoms)} :
            IF Len(vectors) < MinNeighbors
            THEN ret.q6 = FZero /\ ret.q4 = FZero
            ELSE /\ ret.q6 = QlOfVectors(vectors, Q6_Q4.l_q6)
                 /\ ret.q4 = QlOfVectors(vectors, Q6_Q4.l_q4)

\* With the flag false, a metal atom that has four atoms in its window,
\* one of them of another species: the three metal neighbours are below
\* the threshold and both order parameters are 0.0.
C21_BystanderNotCounted ==
    /\ op = "analyze_trajectory"
    /\ ~arg.include_oxygen_in_local
    /\ Len(VectorsToAtoms(1..Len(arg.elements))) >= MinNeighbors
    /\ Len(VectorsToAtoms(CandidateAtoms)) = MinNeighbors - 1
    /\ ret.q6 = FZero
    /\ ret.q4 = FZero

(***************************************************************************)
(* C22, C23, C24: the four variants of calc_gcn_descriptors                *)
(***************************************************************************)
\* The distance from the centre to the entry i of a list of positions.
DistanceTo(positions, i) == vector_norm(vector_sub(positions[i], arg.central_pos))

\* The number of entries of a list at a distance in [r_min, r_max]. The
\* windows start far above 0.1, so the filter of the Pt distances by
\* > 0.1 removes nothing a window holds.
CountIn(positions, r_min, r_max) ==
    Cardinality({i \in 1..Len(positions) :
                    \E d \in {DistanceTo(positions, i)} : FGe(d, r_min) /\ FLe(d, r_max)})

\* pt_weight * (Pt neighbours in the window) + sn_weight * (Sn neighbours
\* in the window).
WindowTerm(window) ==
    FAdd(FMul(window.pt_weight,
              F(CountIn(arg.pt_positions, window.r_min, window.r_max), 0)),
         FMul(window.sn_weight,
              F(CountIn(arg.sn_positions, window.r_min, window.r_max), 0)))

\* C22: shell_gcn_loc is the sum over every configured window of
\* pt_weight * (Pt neighbours with r_min <= d <= r_max) + sn_weight * (Sn
\* neighbours with r_min <= d <= r_max); a neighbour counts once in every
\* window it falls into, so one at a distance two windows share counts in
\* both.
C22_ShellSumOverWindows ==
    (op = "calc_gcn_descriptors" /\ arg.enable) =>
        ret.shell_gcn_loc =
            FSum([k \in 1..Len(arg.gcn.shell.shells) |-> WindowTerm(arg.gcn.shell.shells[k])])

\* Under the shipped table a Pt neighbour at exactly 2.5 and an Sn
\* neighbour at exactly 3.0: each is counted in the two windows that share
\* its distance, 1.0 + 0.8 + 2.0 + 0.6 = 4.4.
C22_SharedBoundCountedTwice ==
    /\ op = "calc_gcn_descriptors"
    /\ arg.gcn = GCN
    /\ arg.pt_positions = << GcnSites[3] >>
    /\ DistanceTo(arg.pt_positions, 1) = F(25, -1)
    /\ arg.sn_positions = << GcnSites[5] >>
    /\ DistanceTo(arg.sn_positions, 1) = F(30, -1)
    /\ ret.shell_gcn_loc = F(44, -1)

\* C23: sn_w_gcn_loc is a count and no exponential sum: pt_weight * (Pt
\* neighbours with r_min <= d <= r_max) + sn_weight * (Sn neighbours with
\* r_min <= d <= r_max), both bounds included, with the parameters of the
\* windowed variant alone, whatever the standard, weighted and shell
\* parameters are.
C23_WindowedIsCount ==
    (op = "calc_gcn_descriptors" /\ arg.enable) =>
        ret.sn_w_gcn_loc = WindowTerm(arg.gcn.sn_weighted)

\* Under a table with other standard, weighted and shell parameters, a Pt
\* neighbour at exactly r_min and an Sn neighbour at exactly r_max, with a
\* further neighbour beyond the window: 0.8 + 2.5 = 3.3.
C23_BothBoundsCounted ==
    /\ op = "calc_gcn_descriptors"
    /\ arg.gcn.standard # GCN.standard
    /\ arg.gcn.shell # GCN.shell
    /\ \E i \in 1..Len(arg.pt_positions) :
          DistanceTo(arg.pt_positions, i) = arg.gcn.sn_weighted.r_min
    /\ \E i \in 1..Len(arg.sn_positions) :
          DistanceTo(arg.sn_positions, i) = arg.gcn.sn_weighted.r_max
    /\ Len(arg.pt_positions) + Len(arg.sn_positions) > 2
    /\ ret.sn_w_gcn_loc = F(33, -1)

\* What one neighbour at distance d adds to an exponential variant:
\* weight * exp(-d / r0) when d <= cutoff, 0 when d > cutoff.
ExponentialTerm(weight, d, params) ==
    IF FLe(d, params.cutoff) THEN FMul(weight, FExp(FDiv(FNeg(d), params.r0))) ELSE FZero

\* The standard and the weighted GCN are sums of the terms of the
\* neighbours: the standard one sum over both roles pooled, the weighted
\* the sum of the two sums of the roles.
ExponentialSums ==
    \E pt_dists \in {GcnPtDists(arg.central_pos, arg.pt_positions)},
       sn_dists \in {GcnSnDists(arg.central_pos, arg.sn_positions)} :
        /\ ret.gcn_loc =
              FSum([i \in 1..(Len(pt_dists) + Len(sn_dists)) |->
                      ExponentialTerm(FOne, (pt_dists \o sn_dists)[i], arg.gcn.standard)])
        /\ ret.w_gcn_loc =
              FAdd(FSum([i \in 1..Len(pt_dists) |->
                           ExponentialTerm(arg.gcn.weighted.pt_weight, pt_dists[i],
                                           arg.gcn.weighted)]),
                   FSum([i \in 1..Len(sn_dists) |->
                           ExponentialTerm(arg.gcn.weighted.sn_weight, sn_dists[i],
                                           arg.gcn.weighted)]))

\* Both weights of the weighted variant are 1 and it shares r0 and cutoff
\* with the standard variant.
UnitWeights ==
    /\ arg.gcn.weighted.pt_weight = FOne
    /\ arg.gcn.weighted.sn_weight = FOne
    /\ arg.gcn.weighted.r0 = arg.gcn.standard.r0
    /\ arg.gcn.weighted.cutoff = arg.gcn.standard.cutoff

\* Two sums agree to the rounding of their additions.
WithinRounding(x, y) == FLe(FAbs(FSub(x, y)), FMul(F(1, -7), FAbs(y)))

\* C24 as stated: with both weights 1 and the same r0 and cutoff the
\* weighted GCN equals the standard GCN.
C24_WeightedEqualsStandard ==
    (op = "calc_gcn_descriptors" /\ arg.enable /\ UnitWeights) =>
        ret.w_gcn_loc = ret.gcn_loc

\* C24: in the standard and the weighted GCN a neighbour adds exp(-d / r0),
\* times the weight of its role in the weighted variant, exactly when
\* d <= cutoff, the cutoff included, and 0 when d > cutoff; the standard
\* variant pools both roles, and with both weights 1 and the same r0 and
\* cutoff the weighted GCN equals the standard GCN to the rounding of the
\* sums.
C24_ExponentialVariants ==
    (op = "calc_gcn_descriptors" /\ arg.enable) =>
        /\ ExponentialSums
        /\ UnitWeights => WithinRounding(ret.w_gcn_loc, ret.gcn_loc)

\* With unit weights, an Sn neighbour exactly at the cutoff that adds its
\* term, a Pt neighbour beyond the cutoff that adds nothing, and sums that
\* differ in their last digits.
C24_AtCutoffAndRounded ==
    /\ op = "calc_gcn_descriptors"
    /\ UnitWeights
    /\ \E i \in 1..Len(arg.sn_positions) :
          DistanceTo(arg.sn_positions, i) = arg.gcn.standard.cutoff
    /\ \E i \in 1..Len(arg.pt_positions) :
          FGt(DistanceTo(arg.pt_positions, i), arg.gcn.standard.cutoff)
    /\ ret.w_gcn_loc # ret.gcn_loc
    /\ WithinRounding(ret.w_gcn_loc, ret.gcn_loc)

(***************************************************************************)
(* C25: the columns of the three time series of analyze_trajectory         *)
(***************************************************************************)
\* Every column of a series has n entries.
ColumnsOfLength(series, n) == \A key \in DOMAIN series : Len(series[key]) = n

\* The frame j (from 1) of the trajectory holds no atom of the element.
AbsentIn(elem, j) == \A a \in 1..Len(arg.frames[j].elements) : arg.frames[j].elements[a] # elem

\* C25: after any number k of processed frames every column of
\* unified_time_series has exactly k entries; the entry of a frame is NaN
\* in every descriptor column of a metal element without an atom in that
\* frame, and frame and time_ps are frame_idx * sample_interval and
\* frame_idx * sample_interval * dt_ps; the columns of global_q6_series
\* have one length and so have the columns of geometry_series.
C25_ColumnsGrowTogether ==
    (op = "analyze_trajectory_frames" /\ ret.pc = "loop") =>
        /\ ColumnsOfLength(ret.unified_time_series, ret.frame_idx)
        /\ \A j \in 1..ret.frame_idx :
              /\ ret.unified_time_series["frame"][j] = <<(j - 1) * arg.sample_interval>>
              /\ ret.unified_time_series["time_ps"][j] =
                    <<FMul(F((j - 1) * arg.sample_interval, 0), arg.dt_ps)>>
              /\ \A n \in 1..Len(arg.target_elements) :
                    \A key \in ElementColumns(arg.target_elements[n], arg.enable) :
                        (ret.unified_time_series[key][j] = NaN)
                            <=> AbsentIn(arg.target_elements[n], j)
        /\ \E n \in 0..ret.frame_idx :
              ColumnsOfLength(ret.global_q6_series, n)
        /\ \E n \in 0..ret.frame_idx :
              ColumnsOfLength(ret.geometry_series, n)

\* Two frames processed, with GCN enabled, Sn present in the first frame
\* only: the Sn columns hold a value and then NaN, the Pt columns two values.
C25_AbsentRoleIsNaN ==
    /\ op = "analyze_trajectory_frames"
    /\ ret.pc = "loop"
    /\ ret.frame_idx = 2
    /\ arg.enable
    /\ arg.sample_interval = 10
    /\ arg.target_elements = <<"Pt", "Sn">>
    /\ ~AbsentIn("Sn", 1) /\ AbsentIn("Sn", 2)
    /\ ret.unified_time_series["Sn_w_gcn_loc"] # <<NaN, NaN>>
    /\ ret.unified_time_series["Sn_w_gcn_loc"][2] = NaN
    /\ ret.unified_time_series["Sn_structure"][2] = NaN
    /\ ret.unified_time_series["Pt_q6"][2] # NaN
    /\ ret.unified_time_series["frame"] = << <<0>>, <<10>> >>
    /\ Len(ret.global_q6_series["sn_q6_global"]) = 2

(***************************************************************************)
(* C26: the loop of read_xyz_fast                                          *)
(***************************************************************************)
\* C26 as stated: read_xyz_fast terminates on every finite sequence of
\* lines because the line index strictly increases in every pass of the
\* loop that goes on, for any atom-count header, zero, negative and
\* non-numeric ones included.
C26_IndexStrictlyIncreases ==
    [][(op = "read_xyz_fast" /\ op' = "read_xyz_fast" /\ ret'.pc = "loop")
          => ret'.i > ret.i]_vars

====
